---- MODULE Spec2Model ----
(***************************************************************************)
(* Verification model of the SFTP virtual drive backend (src-tauri/src).   *)
(*                                                                         *)
(* Part I  (Spec):   MountManager (mount.rs) called from several threads,  *)
(*                   with create_shared_client (sftp_client.rs) and        *)
(*                   create_filesystem_host (filesystem.rs).               *)
(* Part II (SpecFs): the metadata cache and the session gate of one        *)
(*                   SftpFileSystem under concurrent driver callbacks.     *)
(***************************************************************************)
EXTENDS Integers, FiniteSets, Sequences, TLC

(***************************************************************************)
(* Part I: mount lifecycle                                                 *)
(***************************************************************************)
\* bound: number of sessions create_shared_client may open in one run
MaxInst == 3

\* threads that call into the MountManager
Workers == {"w1", "w2"}
\* drive letters and connection profile ids used as inputs
Drives == {"D", "E"}
Conns == {"c1", "c2"}

InstIds == 1..MaxInst
NoInst == 0

VARIABLES
    mounted,      \* MountManager.mounted: HashMap<char, MountedDrive>
    mu,           \* holder of the parking_lot Mutex around `mounted` ("" = free)
    session,      \* SftpClient behind each SharedSftpClient: "none" | "open" | "closed"
    host,         \* FileSystemHost of each instance
    mount_point,  \* drive letter the host is mounted on ("" when it is not)
    inflight,     \* instance whose dispatcher is inside a remote call (0 = none)
    next_inst,    \* next fresh instance id
    pc,           \* position of each worker thread
    op,           \* the call a worker executes: [name, drive_letter, connection_id]
    client,       \* mount(): the local `client` / `host` pair being built
    dropping,     \* the MountedDrive value a worker is dropping
    result,       \* return value of the worker's last call
    listed,       \* Vec<DriveStatus> returned by the last get_mounted_drives
    ok_mounts     \* per drive: mount() calls that returned Ok since the last removal

mvars == <<mounted, mu, session, host, mount_point, inflight, next_inst, pc, op,
           client, dropping, result, listed, ok_mounts>>

(***************************************************************************)
(* Part II: one SftpFileSystem under concurrent driver callbacks           *)
(***************************************************************************)
\* bound: the clock stops at MaxTime (whole seconds since the mount)
MaxTime == 5
\* bound: number of times the remote attributes of a path change
MaxVer == 1

\* stat 캐시 TTL (초)
STAT_CACHE_TTL_SECS == 5

\* dispatcher threads of the driver framework
Callers == {"k1", "k2"}

\* remote paths as sequences of components: the remote root directory and
\* one file in it
RootDir == <<"r">>
ChildName == "a"
ChildFile == <<"r", "a">>
Paths == {RootDir, ChildFile}
\* paths the driver asks the attributes of
StatPaths == {ChildFile}

VARIABLES
    gate,          \* holder of the Mutex in SharedSftpClient ("" = free)
    stats,         \* StatCache.stats: HashMap<String, CachedStat>
    dirs,          \* StatCache.dirs: HashMap<String, CachedDir>
    now,           \* Instant::now(), in whole seconds
    remote,        \* attributes the server currently reports for each path
    cpc,           \* position of each callback thread
    call,          \* what the callback thread executes: [name, path]
    stat_local,    \* `stat` / `cached`: the FileStat the thread holds
    entries_local, \* `entries`: the listing the thread holds
    now_local,     \* `now` of readdir_with_cache
    ret,           \* how the last call of the thread returned
    last_stat      \* per path: attributes of the remote observation completed last

fvars == <<gate, stats, dirs, now, remote, cpc, call, stat_local, entries_local,
           now_local, ret, last_stat>>

NoCall == [name |-> "none", path |-> << >>]
NoStat == -1

InitFs ==
    /\ gate = ""
    /\ stats = << >>
    /\ dirs = << >>
    /\ now = 0
    /\ remote = [p \in Paths |-> 0]
    /\ cpc = [c \in Callers |-> "idle"]
    /\ call = [c \in Callers |-> NoCall]
    /\ stat_local = [c \in Callers |-> NoStat]
    /\ entries_local = [c \in Callers |-> << >>]
    /\ now_local = [c \in Callers |-> 0]
    /\ ret = [c \in Callers |-> "none"]
    /\ last_stat = [p \in Paths |-> NoStat]

(***************************************************************************)
(* Part III: the open-handle registry of one SftpFileSystem                *)
(***************************************************************************)
\* bound: number of handles one adapter allocates
MaxHandle == 2
\* bound: number of SftpFileSystem values constructed in the process
MaxAdapters == 2

\* handle values the driver framework may pass to a callback
HandleArgs == 1..MaxHandle

VARIABLES
    next_handle,   \* SftpFileSystem.next_handle
    open_files,    \* SftpFileSystem.open_files: HashMap<u64, SftpFileContext>
    hop,           \* the callback each thread executes: [name, handle, path, stage]
    hret,          \* what the last callback of the thread returned
    hval,          \* `path` / `(dir_path, is_dir)`: the context the callback resolved;
                   \* in open, the stat it obtained; after read_directory, the
                   \* stat behind "." and ".."
    adapter,       \* number of SftpFileSystem values constructed so far
    issued,        \* handles create_handle returned in this adapter, in order
    issued_before, \* handles issued by earlier adapters of the process
    returned,      \* handle -> context, for every open that returned Ok
    closed         \* handles close was called with after open returned them

hvars == <<next_handle, open_files, hop, hret, hval, adapter, issued,
           issued_before, returned, closed>>

NoHop == [name |-> "none", handle |-> 0, path |-> << >>, stage |-> "idle"]

\* hval of a thread that holds no value
NoVal == [path |-> << >>]

\* lines 55-66: SftpFileSystem::new
InitHandles ==
    /\ next_handle = 1
    /\ open_files = << >>
    /\ hop = [c \in Callers |-> NoHop]
    /\ hret = [c \in Callers |-> "none"]
    /\ hval = [c \in Callers |-> NoVal]
    /\ adapter = 1
    /\ issued = << >>
    /\ issued_before = {}
    /\ returned = << >>
    /\ closed = {}

(***************************************************************************)
(* Part IV: the bytes of one remote file, read and written through the     *)
(* session gate                                                            *)
(***************************************************************************)
\* bound: length of the remote file and of the buffers of read and write
MaxLen == 2

\* byte values
Bytes == {"x", "y"}

\* a byte of a caller's buffer that no read has filled
Blank == "?"

\* byte sequences of length up to n
SeqsUpTo(n) == UNION {[1..k -> Bytes] : k \in 0..n}

VARIABLES
    content,       \* bytes of the remote file
    dpc,           \* position of each thread in read / write
    io,            \* arguments of the call: [op, offset, length, bytes]
    data,          \* `data`: the Vec read_file_range returned (or the bytes read so far)
    buffer,        \* `buffer` of read, as the caller sees it afterwards
    bytes_read,    \* the count read / write reported (-1: none)
    dres,          \* how the call of the thread ended
    written,       \* bytes of the write_file that succeeded last
    last_writer,   \* thread whose write_file changed the file last ("" if it failed midway)
    following      \* threads whose whole-file read began after that write

dvars == <<content, dpc, io, data, buffer, bytes_read, dres, written, last_writer,
           following>>

NoIo == [op |-> "none", offset |-> 0, length |-> 0, bytes |-> << >>]

\* the threads before any call
InitCalls ==
    /\ dpc = [c \in Callers |-> "idle"]
    /\ io = [c \in Callers |-> NoIo]
    /\ data = [c \in Callers |-> << >>]
    /\ buffer = [c \in Callers |-> << >>]
    /\ bytes_read = [c \in Callers |-> -1]
    /\ dres = [c \in Callers |-> "none"]
    /\ written = << >>
    /\ last_writer = ""
    /\ following = {}

\* the file is empty
InitData ==
    /\ content = << >>
    /\ InitCalls

\* the file holds any bytes
InitAnyData ==
    /\ content \in SeqsUpTo(MaxLen)
    /\ InitCalls

(***************************************************************************)
(* Part V: the entries read_directory serialises (filesystem.rs 469-516)   *)
(***************************************************************************)
MaxEntries == 3
MaxRoom == 10

\* DirInfo<255>: the longest name, in UTF-16 units, set_name accepts
MaxName == 255

\* names a remote listing may hold: the dot entries, two short names and one
\* that is too long for a DirInfo
LongName == "long"
Names == {".", "..", "a", "bb", LongName}

\* UTF-16 units of a name
Units(name) ==
    CASE name = "." -> 1
      [] name = ".." -> 2
      [] name = "a" -> 1
      [] name = "bb" -> 2
      [] OTHER -> MaxName + 1

\* marker.inner_as_cstr() is None
NoMarker == "none"

\* listings of at most n entries with distinct names
ListingsUpTo(n) ==
    UNION {{q \in [1..k -> Names] : \A i, j \in 1..k : q[i] = q[j] => i = j} : k \in 0..n}

VARIABLES
    dir_listing,   \* `entries`: names of the listing, in the order of the server
    dir_marker,    \* `marker` of the last read_directory call
    dir_room,      \* room in `buffer` of that call
    dir_out,       \* names appended to `buffer` by that call, in order
    enumerated     \* whether read_directory has been called

evars == <<dir_listing, dir_marker, dir_room, dir_out, enumerated>>

\* no enumeration yet
InitCall ==
    /\ dir_marker = NoMarker
    /\ dir_room = 0
    /\ dir_out = << >>
    /\ enumerated = FALSE

InitDir ==
    /\ dir_listing = << >>
    /\ InitCall

\* the directory holds any listing
InitAnyDir ==
    /\ dir_listing \in ListingsUpTo(MaxEntries)
    /\ InitCall

\* the caller of read_directory that lists a whole directory: it calls
\* without a marker, then with the last name it was given, until a call gives
\* it nothing
VARIABLES
    emitted,      \* the names the calls of the loop appended, in order
    loop_pc,      \* "first", "resume" or "done"
    loop_calls    \* calls made by the loop

lvars == <<emitted, loop_pc, loop_calls>>

\* calls a loop over the largest listing can need, and some more
MaxCalls == MaxEntries + 4

InitLoop ==
    /\ emitted = << >>
    /\ loop_pc = "first"
    /\ loop_calls = 0

(***************************************************************************)
(* Part VI: stat_to_file_info and unix_to_windows_time (filesystem.rs      *)
(* 163-213). A u64 does not fit the integers of the model checker, so a    *)
(* number is written in base 4096 as its digits, lowest first.             *)
(***************************************************************************)
\* the base of the digits: 4095 + 1, the alignment of line 168
Base == 4096
\* digits of a number: 96 bits, enough for any product of the conversion
Digits == 8

\* a number below 2^31 as digits
FromInt(n) ==
    [i \in 1..Digits |->
        CASE i = 1 -> n % Base
          [] i = 2 -> (n \div Base) % Base
          [] i = 3 -> n \div (Base * Base)
          [] OTHER -> 0]

\* digits that may exceed the base, with the carries taken
Norm(d) ==
    LET RECURSIVE Go(_, _, _)
        Go(i, carry, acc) ==
            IF i > Digits THEN acc
            ELSE Go(i + 1, (d[i] + carry) \div Base,
                    [acc EXCEPT ![i] = (d[i] + carry) % Base])
    IN Go(1, 0, [i \in 1..Digits |-> 0])

Add(x, y) == Norm([i \in 1..Digits |-> x[i] + y[i]])

\* x * k for a factor k of at most 10000
MulSmall(x, k) == Norm([i \in 1..Digits |-> x[i] * k])

\* x < y
Less(x, y) ==
    \E i \in 1..Digits : x[i] < y[i] /\ \A j \in (i + 1)..Digits : x[j] = y[j]

\* u64::MAX = 2^64 - 1: five digits of 12 bits and one of 4
U64_MAX == [i \in 1..Digits |-> IF i <= 5 THEN Base - 1 ELSE IF i = 6 THEN 15 ELSE 0]

\* x modulo 2^64
Wrap64(x) == [i \in 1..Digits |-> IF i <= 5 THEN x[i] ELSE IF i = 6 THEN x[i] % 16 ELSE 0]

\* const UNIX_TO_WINDOWS_EPOCH: u64 = 11644473600
UNIX_TO_WINDOWS_EPOCH ==
    Add(MulSmall(MulSmall(FromInt(11644), 1000), 1000), FromInt(473600))

\* the default modification time of lines 186 and 204 (2024-01-01)
DefaultTime == FromInt(1704067200)

\* Option::None, where Some(x) is the digits of x
None == << >>

\* what a u64 operation that overflows does: with overflow checks (a debug
\* build) the thread panics, without them (a release build) the result wraps
Builds == {"debug", "release"}
Panic == <<-1>>

\* sizes a server may report (u64 on the wire)
Sizes ==
    {FromInt(0), FromInt(1), FromInt(10), FromInt(4095), FromInt(4096),
     FromInt(4097), FromInt(1073741829),
     [U64_MAX EXCEPT ![1] = 0], [U64_MAX EXCEPT ![1] = 1], U64_MAX}

\* modification times a server may report (u32 on the wire)
Times == {FromInt(0), FromInt(1), DefaultTime, FromInt(2147483647),
          Add(FromInt(2147483647), FromInt(2147483647))}

\* ssh2::FileStat as far as the conversion reads it
FileStats ==
    [size : Sizes \cup {None}, mtime : Times \cup {None}, dir : BOOLEAN]

VARIABLES
    stat_in,       \* `stat`: the FileStat handed to stat_to_file_info
    file_info      \* the FileInfo it returned (NoInfo: not called yet)

cvars == <<stat_in, file_info>>

\* no FileInfo yet, and the one of a callback that panicked
NoInfo == [status |-> "none"]
PanicInfo == [status |-> "panic"]

InitConv ==
    /\ stat_in = [size |-> FromInt(0), mtime |-> None, dir |-> FALSE]
    /\ file_info = NoInfo

\* any attribute record
InitAnyConv ==
    /\ stat_in \in FileStats
    /\ file_info = NoInfo

(***************************************************************************)
(* Part VII: SftpClient::connect and verify_known_host (sftp_client.rs     *)
(* 24-109)                                                                 *)
(***************************************************************************)
\* connection.port: the default port and another one
Ports == {22, 2222}

\* host keys a server may present or a known_hosts line may hold
HostKeys == {"ka", "kb"}

\* the names a known_hosts line may carry for connection.host: the bare host
\* name, which is how a host on the default port is written, and
\* "[host]:port"
PlainName == "h"
Bracketed(port) == IF port = 22 THEN "[h]:22" ELSE "[h]:2222"
HostNames == {PlainName} \cup {Bracketed(port) : port \in Ports}

\* the known_hosts files: none, or lines that give names their key
KnownHostsFiles ==
    {[exists |-> FALSE, lines |-> << >>]}
    \cup {[exists |-> TRUE, lines |-> f] :
            f \in UNION {[names -> HostKeys] : names \in SUBSET HostNames}}

VARIABLES
    known_hosts,     \* ~/.ssh/known_hosts
    conn_port,       \* connection.port
    server_key,      \* the host key the server presents in the handshake
    password,        \* whether connect was given a password
    conn_pc,         \* position of connect
    credential_sent, \* whether the password went to the server
    conn_result      \* what connect returned

nvars == <<known_hosts, conn_port, server_key, password, conn_pc, credential_sent,
           conn_result>>

InitConnect ==
    /\ known_hosts = [exists |-> FALSE, lines |-> << >>]
    /\ conn_port = 22
    /\ server_key = "ka"
    /\ password = TRUE
    /\ conn_pc = "start"
    /\ credential_sent = FALSE
    /\ conn_result = "none"

\* any known_hosts file, port, server key and password
InitAnyConnect ==
    /\ known_hosts \in KnownHostsFiles
    /\ conn_port \in Ports
    /\ server_key \in HostKeys
    /\ password \in BOOLEAN
    /\ conn_pc = "start"
    /\ credential_sent = FALSE
    /\ conn_result = "none"

\* the variables each part leaves alone
outside_mount == <<fvars, hvars, dvars, evars, cvars, nvars, lvars>>
outside_fs == <<mvars, hvars, dvars, evars, cvars, nvars, lvars>>
outside_handles == <<mvars, dvars, evars, cvars, nvars, lvars>>
outside_data == <<mvars, hvars, evars, cvars, nvars, lvars>>
outside_dir == <<mvars, fvars, hvars, dvars, cvars, nvars>>
outside_conv == <<mvars, fvars, hvars, dvars, evars, nvars, lvars>>
outside_connect == <<mvars, fvars, hvars, dvars, evars, cvars, lvars>>

NoOp == [name |-> "none", drive_letter |-> "", connection_id |-> ""]

\* MountedDrive { connection_id, drive_letter, client, _host }
MountedDrive(c, d, i) ==
    [connection_id |-> c, drive_letter |-> d, client |-> i, host |-> i]

InitMount ==
    /\ mounted = << >>
    /\ mu = ""
    /\ session = [i \in InstIds |-> "none"]
    /\ host = [i \in InstIds |-> "none"]
    /\ mount_point = [i \in InstIds |-> ""]
    /\ inflight = NoInst
    /\ next_inst = 1
    /\ pc = [t \in Workers |-> "idle"]
    /\ op = [t \in Workers |-> NoOp]
    /\ client = [t \in Workers |-> NoInst]
    /\ dropping = [t \in Workers |-> NoInst]
    /\ result = [t \in Workers |-> "none"]
    /\ listed = [t \in Workers |-> {}]
    /\ ok_mounts = [d \in Drives |-> 0]

(***************************************************************************)
(* Calls arriving at the MountManager (commands.rs 79-109).                *)
(***************************************************************************)
Begin(t, name, d, c, first) ==
    /\ pc[t] = "idle"
    /\ pc' = [pc EXCEPT ![t] = first]
    /\ op' = [op EXCEPT ![t] = [name |-> name, drive_letter |-> d, connection_id |-> c]]
    /\ result' = [result EXCEPT ![t] = "pending"]
    /\ listed' = [listed EXCEPT ![t] = {}]
    /\ UNCHANGED <<mounted, mu, session, host, mount_point, inflight, next_inst,
                   client, dropping, ok_mounts>>
    /\ UNCHANGED outside_mount

mount_drive(t) == \E d \in Drives, c \in Conns : Begin(t, "mount", d, c, "m_check")

unmount_drive(t) == \E d \in Drives : Begin(t, "unmount", d, "", "u_remove")

get_mounted_drives_cmd(t) == Begin(t, "list", "", "", "l_collect")

\* a critical section on `mounted` that ends within the same step: the mutex
\* must be free and is free again afterwards
LockedStep == mu = "" /\ mu' = ""

(***************************************************************************)
(* MountManager::mount                                                     *)
(***************************************************************************)
\* mutant: the contains_key test is left out
MountCheck_NoTest(t) ==
    /\ pc[t] = "m_check"
    /\ LockedStep
    /\ pc' = [pc EXCEPT ![t] = "m_connect"]
    /\ UNCHANGED <<mounted, session, host, mount_point, inflight, next_inst, op,
                   client, dropping, result, listed, ok_mounts>>
    /\ UNCHANGED outside_mount

\* lines 42-47: lock, contains_key, early return; the guard is dropped at the
\* end of the block in both branches
MountCheck(t) ==
    /\ pc[t] = "m_check"
    /\ LockedStep
    /\ IF op[t].drive_letter \in DOMAIN mounted
       THEN /\ result' = [result EXCEPT ![t] = "AlreadyMounted"]
            /\ pc' = [pc EXCEPT ![t] = "idle"]
       ELSE /\ pc' = [pc EXCEPT ![t] = "m_connect"]
            /\ UNCHANGED result
    /\ UNCHANGED <<mounted, session, host, mount_point, inflight, next_inst, op,
                   client, dropping, listed, ok_mounts>>
    /\ UNCHANGED outside_mount

\* mutant: the entry is recorded as soon as the session exists
create_shared_client_Records(t) ==
    /\ pc[t] = "m_connect"
    /\ \/ /\ next_inst <= MaxInst
          /\ session' = [session EXCEPT ![next_inst] = "open"]
          /\ client' = [client EXCEPT ![t] = next_inst]
          /\ next_inst' = next_inst + 1
          /\ mounted' = [x \in DOMAIN mounted \cup {op[t].drive_letter} |->
                            IF x = op[t].drive_letter
                            THEN MountedDrive(op[t].connection_id, x, next_inst)
                            ELSE mounted[x]]
          /\ pc' = [pc EXCEPT ![t] = "m_host_new"]
          /\ UNCHANGED result
       \/ /\ result' = [result EXCEPT ![t] = "ConnectErr"]
          /\ pc' = [pc EXCEPT ![t] = "idle"]
          /\ UNCHANGED <<session, client, next_inst, mounted>>
    /\ UNCHANGED <<mu, host, mount_point, inflight, op, dropping,
                   listed, ok_mounts>>
    /\ UNCHANGED outside_mount

\* line 50: create_shared_client(connection, password)?
\* SftpClient::connect either returns an authenticated session or an error
create_shared_client(t) ==
    /\ pc[t] = "m_connect"
    /\ \/ /\ next_inst <= MaxInst
          /\ session' = [session EXCEPT ![next_inst] = "open"]
          /\ client' = [client EXCEPT ![t] = next_inst]
          /\ next_inst' = next_inst + 1
          /\ pc' = [pc EXCEPT ![t] = "m_host_new"]
          /\ UNCHANGED result
       \/ /\ result' = [result EXCEPT ![t] = "ConnectErr"]
          /\ pc' = [pc EXCEPT ![t] = "idle"]
          /\ UNCHANGED <<session, client, next_inst>>
    /\ UNCHANGED <<mounted, mu, host, mount_point, inflight, op, dropping,
                   listed, ok_mounts>>
    /\ UNCHANGED outside_mount

\* an error return inside create_filesystem_host (`?`) drops the host, if
\* there is one, and with it the last references to the client
HostFail(t) ==
    /\ host' = [host EXCEPT ![client[t]] = "dropped"]
    /\ mount_point' = [mount_point EXCEPT ![client[t]] = ""]
    /\ session' = [session EXCEPT ![client[t]] = "closed"]
    /\ client' = [client EXCEPT ![t] = NoInst]
    /\ result' = [result EXCEPT ![t] = "HostErr"]
    /\ pc' = [pc EXCEPT ![t] = "idle"]

\* filesystem.rs 532-565: SftpFileSystem::new + FileSystemHost::new(...)?
HostNew(t) ==
    /\ pc[t] = "m_host_new"
    /\ \/ /\ host' = [host EXCEPT ![client[t]] = "created"]
          /\ pc' = [pc EXCEPT ![t] = "m_host_mount"]
          /\ UNCHANGED <<session, client, result, mount_point>>
       \/ HostFail(t)
    /\ UNCHANGED <<mounted, mu, inflight, next_inst, op, dropping, listed, ok_mounts>>
    /\ UNCHANGED outside_mount

\* filesystem.rs 567-570: host.mount("<letter>:")?
\* nothing in the source makes the framework refuse a letter another host
\* of this process already uses, so both answers are possible
HostMount(t) ==
    /\ pc[t] = "m_host_mount"
    /\ \/ /\ host' = [host EXCEPT ![client[t]] = "mounted"]
          /\ mount_point' = [mount_point EXCEPT ![client[t]] = op[t].drive_letter]
          /\ pc' = [pc EXCEPT ![t] = "m_host_start"]
          /\ UNCHANGED <<session, client, result>>
       \/ HostFail(t)
    /\ UNCHANGED <<mounted, mu, inflight, next_inst, op, dropping, listed, ok_mounts>>
    /\ UNCHANGED outside_mount

\* mutant: the host is returned without being started
HostStart_NotStarted(t) ==
    /\ pc[t] = "m_host_start"
    /\ \/ /\ pc' = [pc EXCEPT ![t] = "m_insert"]
          /\ UNCHANGED <<host, session, client, result, mount_point>>
       \/ HostFail(t)
    /\ UNCHANGED <<mounted, mu, inflight, next_inst, op, dropping, listed, ok_mounts>>
    /\ UNCHANGED outside_mount

\* filesystem.rs 572-575: host.start()?; Ok(host)
HostStart(t) ==
    /\ pc[t] = "m_host_start"
    /\ \/ /\ host' = [host EXCEPT ![client[t]] = "started"]
          /\ pc' = [pc EXCEPT ![t] = "m_insert"]
          /\ UNCHANGED <<session, client, result, mount_point>>
       \/ HostFail(t)
    /\ UNCHANGED <<mounted, mu, inflight, next_inst, op, dropping, listed, ok_mounts>>
    /\ UNCHANGED outside_mount

\* the value mount() returns with Ok(DriveStatus { .. }), lines 66-71
ReturnOkMount(t) ==
    /\ result' = [result EXCEPT ![t] = "Ok"]
    /\ ok_mounts' = [ok_mounts EXCEPT ![op[t].drive_letter] =
                        IF @ < 2 THEN @ + 1 ELSE @]
    /\ pc' = [pc EXCEPT ![t] = "idle"]

\* lines 57-64: self.mounted.lock().insert(drive_letter, mounted_drive);
\* a value the insert replaces is dropped before the guard of that statement
MountInsert(t) ==
    /\ pc[t] = "m_insert"
    /\ mu = ""
    /\ LET d == op[t].drive_letter
           new == MountedDrive(op[t].connection_id, d, client[t])
       IN /\ mounted' = [x \in DOMAIN mounted \cup {d} |->
                            IF x = d THEN new ELSE mounted[x]]
          /\ IF d \in DOMAIN mounted
             THEN /\ dropping' = [dropping EXCEPT ![t] = mounted[d].host]
                  /\ mu' = t
                  /\ pc' = [pc EXCEPT ![t] = "m_drop_wait"]
                  /\ UNCHANGED <<result, ok_mounts>>
             ELSE /\ ReturnOkMount(t)
                  /\ UNCHANGED <<dropping, mu>>
    /\ client' = [client EXCEPT ![t] = NoInst]
    /\ UNCHANGED <<session, host, mount_point, inflight, next_inst, op, listed>>
    /\ UNCHANGED outside_mount

\* lines 64-71 after a replaced value was dropped: the guard is released
MountReturn(t) ==
    /\ pc[t] = "m_ret"
    /\ mu' = ""
    /\ dropping' = [dropping EXCEPT ![t] = NoInst]
    /\ ReturnOkMount(t)
    /\ UNCHANGED <<mounted, session, host, mount_point, inflight, next_inst, op,
                   client, listed>>
    /\ UNCHANGED outside_mount

(***************************************************************************)
(* Drop of a MountedDrive (mount.rs 12-18): `client` is one of the two     *)
(* references to the session, `_host` owns the other one inside its        *)
(* SftpFileSystem.  Dropping the host stops the dispatcher (which waits    *)
(* for the callbacks in flight), removes the mount point and frees the     *)
(* file system context, and with it the session.                           *)
(***************************************************************************)
DropStopWait(t, at, then) ==
    /\ pc[t] = at
    /\ inflight # dropping[t]
    /\ host' = [host EXCEPT ![dropping[t]] = "stopped"]
    /\ pc' = [pc EXCEPT ![t] = then]
    /\ UNCHANGED <<mounted, mu, session, mount_point, inflight, next_inst, op,
                   client, dropping, result, listed, ok_mounts>>
    /\ UNCHANGED outside_mount

DropHost(t, at, then) ==
    /\ pc[t] = at
    /\ host' = [host EXCEPT ![dropping[t]] = "dropped"]
    /\ mount_point' = [mount_point EXCEPT ![dropping[t]] = ""]
    /\ pc' = [pc EXCEPT ![t] = then]
    /\ UNCHANGED <<mounted, mu, session, inflight, next_inst, op,
                   client, dropping, result, listed, ok_mounts>>
    /\ UNCHANGED outside_mount

DropClient(t, at, then) ==
    /\ pc[t] = at
    /\ session' = [session EXCEPT ![dropping[t]] = "closed"]
    /\ pc' = [pc EXCEPT ![t] = then]
    /\ UNCHANGED <<mounted, mu, host, mount_point, inflight, next_inst, op,
                   client, dropping, result, listed, ok_mounts>>
    /\ UNCHANGED outside_mount

MountDropOld(t) ==
    \/ DropStopWait(t, "m_drop_wait", "m_drop_host")
    \/ DropHost(t, "m_drop_host", "m_drop_client")
    \/ DropClient(t, "m_drop_client", "m_ret")

(***************************************************************************)
(* MountManager::unmount                                                   *)
(***************************************************************************)
\* mutant: a missing entry is not reported
UnmountRemove_Silent(t) ==
    /\ pc[t] = "u_remove"
    /\ mu = ""
    /\ LET d == op[t].drive_letter
       IN IF d \in DOMAIN mounted
          THEN /\ mounted' = [x \in DOMAIN mounted \ {d} |-> mounted[x]]
               /\ dropping' = [dropping EXCEPT ![t] = mounted[d].host]
               /\ ok_mounts' = [ok_mounts EXCEPT ![d] = 0]
               /\ mu' = t
               /\ pc' = [pc EXCEPT ![t] = "u_drop_wait"]
               /\ UNCHANGED result
          ELSE /\ result' = [result EXCEPT ![t] = "Ok"]
               /\ mu' = ""
               /\ pc' = [pc EXCEPT ![t] = "idle"]
               /\ UNCHANGED <<mounted, dropping, ok_mounts>>
    /\ UNCHANGED <<session, host, mount_point, inflight, next_inst, op, client,
                   listed>>
    /\ UNCHANGED outside_mount

\* mutant: the guard is released before the removed value is dropped
UnmountRemove_EarlyUnlock(t) ==
    /\ pc[t] = "u_remove"
    /\ mu = ""
    /\ mu' = ""
    /\ LET d == op[t].drive_letter
       IN IF d \in DOMAIN mounted
          THEN /\ mounted' = [x \in DOMAIN mounted \ {d} |-> mounted[x]]
               /\ dropping' = [dropping EXCEPT ![t] = mounted[d].host]
               /\ ok_mounts' = [ok_mounts EXCEPT ![d] = 0]
               /\ pc' = [pc EXCEPT ![t] = "u_drop_wait"]
               /\ UNCHANGED result
          ELSE /\ result' = [result EXCEPT ![t] = "NotMounted"]
               /\ pc' = [pc EXCEPT ![t] = "idle"]
               /\ UNCHANGED <<mounted, dropping, ok_mounts>>
    /\ UNCHANGED <<session, host, mount_point, inflight, next_inst, op, client,
                   listed>>
    /\ UNCHANGED outside_mount

\* lines 76-83: let mut mounted = self.mounted.lock();
\*              if mounted.remove(&drive_letter).is_none() { return Err(..) }
UnmountRemove(t) ==
    /\ pc[t] = "u_remove"
    /\ mu = ""
    /\ LET d == op[t].drive_letter
       IN IF d \in DOMAIN mounted
          THEN /\ mounted' = [x \in DOMAIN mounted \ {d} |-> mounted[x]]
               /\ dropping' = [dropping EXCEPT ![t] = mounted[d].host]
               /\ ok_mounts' = [ok_mounts EXCEPT ![d] = 0]
               /\ mu' = t
               /\ pc' = [pc EXCEPT ![t] = "u_drop_wait"]
               /\ UNCHANGED result
          ELSE /\ result' = [result EXCEPT ![t] = "NotMounted"]
               /\ mu' = ""
               /\ pc' = [pc EXCEPT ![t] = "idle"]
               /\ UNCHANGED <<mounted, dropping, ok_mounts>>
    /\ UNCHANGED <<session, host, mount_point, inflight, next_inst, op, client,
                   listed>>
    /\ UNCHANGED outside_mount

\* the removed value is a temporary of the `if` condition: it is dropped
\* there, while the guard `mounted` is alive until the function returns
UnmountDrop(t) ==
    \/ DropStopWait(t, "u_drop_wait", "u_drop_host")
    \/ DropHost(t, "u_drop_host", "u_drop_client")
    \/ DropClient(t, "u_drop_client", "u_ret")

\* lines 85-87: Ok(()), the guard goes out of scope
UnmountReturn(t) ==
    /\ pc[t] = "u_ret"
    /\ mu' = ""
    /\ result' = [result EXCEPT ![t] = "Ok"]
    /\ dropping' = [dropping EXCEPT ![t] = NoInst]
    /\ pc' = [pc EXCEPT ![t] = "idle"]
    /\ UNCHANGED <<mounted, session, host, mount_point, inflight, next_inst, op,
                   client, listed, ok_mounts>>
    /\ UNCHANGED outside_mount

(***************************************************************************)
(* MountManager::get_mounted_drives                                        *)
(***************************************************************************)
\* lines 91-100: lock().iter().map(..).collect()
get_mounted_drives(t) ==
    /\ pc[t] = "l_collect"
    /\ LockedStep
    /\ listed' = [listed EXCEPT ![t] =
                    {<<d, mounted[d].connection_id>> : d \in DOMAIN mounted}]
    /\ result' = [result EXCEPT ![t] = "Ok"]
    /\ pc' = [pc EXCEPT ![t] = "idle"]
    /\ UNCHANGED <<mounted, session, host, mount_point, inflight, next_inst, op,
                   client, dropping, ok_mounts>>
    /\ UNCHANGED outside_mount

(***************************************************************************)
(* The driver framework dispatching a callback of a started host that      *)
(* performs a remote call (filesystem.rs: read, write, stat_with_cache,    *)
(* readdir_with_cache hold the session while the call is in flight).       *)
(***************************************************************************)
CallbackEnter(i) ==
    /\ host[i] = "started"
    /\ inflight = NoInst
    /\ inflight' = i
    /\ UNCHANGED <<mounted, mu, session, host, mount_point, next_inst, pc, op,
                   client, dropping, result, listed, ok_mounts>>
    /\ UNCHANGED outside_mount

CallbackReturn(i) ==
    /\ inflight = i
    /\ inflight' = NoInst
    /\ UNCHANGED <<mounted, mu, session, host, mount_point, next_inst, pc, op,
                   client, dropping, result, listed, ok_mounts>>
    /\ UNCHANGED outside_mount

NextMount ==
    \/ \E t \in Workers :
        \/ mount_drive(t)
        \/ unmount_drive(t)
        \/ get_mounted_drives_cmd(t)
        \/ MountCheck(t)
        \/ create_shared_client(t)
        \/ HostNew(t)
        \/ HostMount(t)
        \/ HostStart(t)
        \/ MountInsert(t)
        \/ MountDropOld(t)
        \/ MountReturn(t)
        \/ UnmountRemove(t)
        \/ UnmountDrop(t)
        \/ UnmountReturn(t)
        \/ get_mounted_drives(t)
    \/ \E i \in InstIds :
        \/ CallbackEnter(i)
        \/ CallbackReturn(i)

(***************************************************************************)
(* Part II actions: filesystem.rs, SftpFileSystem                          *)
(***************************************************************************)
\* HashMap::insert
Put(m, k, v) == [x \in DOMAIN m \cup {k} |-> IF x = k THEN v ELSE m[x]]

\* entry.cached_at.elapsed().as_secs(): the clock counts whole seconds
ElapsedSecs(at) == now - at

\* lines 120-124: full_path of a child of `path` ("/" is the empty sequence)
FullPath(path, name) == IF path = << >> THEN <<name>> ELSE Append(path, name)

\* what SftpClient::read_dir returns for the root directory
Listing == << <<ChildName, remote[ChildFile]>> >>

\* mutant: an entry is still served at the age of exactly the TTL
cached_stat_Inclusive(path) ==
    IF path \in DOMAIN stats
          /\ ElapsedSecs(stats[path].cached_at) <= STAT_CACHE_TTL_SECS
    THEN stats[path].stat
    ELSE NoStat

\* lines 69-77: cached_stat (NoStat stands for None)
cached_stat(path) ==
    IF path \in DOMAIN stats
          /\ ElapsedSecs(stats[path].cached_at) < STAT_CACHE_TTL_SECS
    THEN stats[path].stat
    ELSE NoStat

\* lines 103-110: the listing cache is consulted with the same rule
cached_dir_valid(path) ==
    /\ path \in DOMAIN dirs
    /\ ElapsedSecs(dirs[path].cached_at) < STAT_CACHE_TTL_SECS

\* the driver framework dispatches a callback on thread c
Dispatch(c, name, p, first) ==
    /\ cpc[c] = "idle"
    /\ cpc' = [cpc EXCEPT ![c] = first]
    /\ call' = [call EXCEPT ![c] = [name |-> name, path |-> p]]
    /\ ret' = [ret EXCEPT ![c] = "pending"]
    /\ stat_local' = [stat_local EXCEPT ![c] = NoStat]
    /\ entries_local' = [entries_local EXCEPT ![c] = << >>]
    /\ now_local' = [now_local EXCEPT ![c] = 0]
    /\ UNCHANGED <<gate, stats, dirs, now, remote, last_stat>>
    /\ UNCHANGED outside_fs

\* get_security_by_name / open / get_file_info / read_directory reach
\* stat_with_cache(path)
stat_with_cache(c) == \E p \in StatPaths : Dispatch(c, "stat", p, "s_lookup")

\* read_directory reaches readdir_with_cache(dir_path)
readdir_with_cache(c) == Dispatch(c, "readdir", RootDir, "d_lookup")

\* read / write: lines 321-327 and 364-370 resolve the handle to its path under
\* the read lock of open_files, which is released at the end of the block
read(c) == Dispatch(c, "read", ChildFile, "r_lock")

write(c) == Dispatch(c, "write", ChildFile, "w_lock")

\* mutant: the session is used without waiting for the mutex
GateLock_NoWait(c, at, then) ==
    /\ cpc[c] = at
    /\ gate' = c
    /\ cpc' = [cpc EXCEPT ![c] = then]
    /\ UNCHANGED <<stats, dirs, now, remote, call, stat_local, entries_local,
                   now_local, ret, last_stat>>
    /\ UNCHANGED outside_fs

\* self.client.lock(): blocks while another thread holds the session
GateLock(c, at, then) ==
    /\ cpc[c] = at
    /\ gate = ""
    /\ gate' = c
    /\ cpc' = [cpc EXCEPT ![c] = then]
    /\ UNCHANGED <<stats, dirs, now, remote, call, stat_local, entries_local,
                   now_local, ret, last_stat>>
    /\ UNCHANGED outside_fs

\* mutant: the guard of the session outlives a call that failed
RemoteErr_KeepGate(c) ==
    /\ gate' = gate
    /\ ret' = [ret EXCEPT ![c] = "err"]
    /\ cpc' = [cpc EXCEPT ![c] = "idle"]

\* an error of the remote call: the guard is dropped, the error returned
RemoteErr(c) ==
    /\ gate' = ""
    /\ ret' = [ret EXCEPT ![c] = "err"]
    /\ cpc' = [cpc EXCEPT ![c] = "idle"]

\* lines 81-84: 1. cache lookup
StatLookup(c) ==
    /\ cpc[c] = "s_lookup"
    /\ LET cached == cached_stat(call[c].path)
       IN IF cached # NoStat
          THEN /\ stat_local' = [stat_local EXCEPT ![c] = cached]
               /\ ret' = [ret EXCEPT ![c] = "hit"]
               /\ cpc' = [cpc EXCEPT ![c] = "idle"]
          ELSE /\ cpc' = [cpc EXCEPT ![c] = "s_lock"]
               /\ UNCHANGED <<stat_local, ret>>
    /\ UNCHANGED <<gate, stats, dirs, now, remote, call, entries_local, now_local,
                   last_stat>>
    /\ UNCHANGED outside_fs

\* line 86
StatLock(c) == GateLock(c, "s_lock", "s_call")

\* mutant: the guard of the session lives until stat_with_cache returns
StatCall_KeepGate(c) ==
    /\ cpc[c] = "s_call"
    /\ \/ /\ stat_local' = [stat_local EXCEPT ![c] = remote[call[c].path]]
          /\ last_stat' = [last_stat EXCEPT ![call[c].path] = remote[call[c].path]]
          /\ cpc' = [cpc EXCEPT ![c] = "s_store"]
          /\ UNCHANGED <<ret, gate>>
       \/ /\ RemoteErr(c)
          /\ UNCHANGED <<stat_local, last_stat>>
    /\ UNCHANGED <<stats, dirs, now, remote, call, entries_local, now_local>>
    /\ UNCHANGED outside_fs

\* lines 87-88: client.stat(path)?; drop(client)
StatCall(c) ==
    /\ cpc[c] = "s_call"
    /\ \/ /\ stat_local' = [stat_local EXCEPT ![c] = remote[call[c].path]]
          /\ last_stat' = [last_stat EXCEPT ![call[c].path] = remote[call[c].path]]
          /\ gate' = ""
          /\ cpc' = [cpc EXCEPT ![c] = "s_store"]
          /\ UNCHANGED ret
       \/ /\ RemoteErr(c)
          /\ UNCHANGED <<stat_local, last_stat>>
    /\ UNCHANGED <<stats, dirs, now, remote, call, entries_local, now_local>>
    /\ UNCHANGED outside_fs

\* lines 90-97: 3. the result is stored with cached_at = Instant::now()
StatStore(c) ==
    /\ cpc[c] = "s_store"
    /\ stats' = Put(stats, call[c].path,
                    [stat |-> stat_local[c], cached_at |-> now])
    /\ ret' = [ret EXCEPT ![c] = "fresh"]
    /\ cpc' = [cpc EXCEPT ![c] = "idle"]
    /\ UNCHANGED <<gate, dirs, now, remote, call, stat_local, entries_local,
                   now_local, last_stat>>
    /\ UNCHANGED outside_fs

\* lines 102-110
DirLookup(c) ==
    /\ cpc[c] = "d_lookup"
    /\ IF cached_dir_valid(call[c].path)
       THEN /\ entries_local' = [entries_local EXCEPT ![c] = dirs[call[c].path].entries]
            /\ ret' = [ret EXCEPT ![c] = "hit"]
            /\ cpc' = [cpc EXCEPT ![c] = "idle"]
       ELSE /\ cpc' = [cpc EXCEPT ![c] = "d_lock"]
            /\ UNCHANGED <<entries_local, ret>>
    /\ UNCHANGED <<gate, stats, dirs, now, remote, call, stat_local, now_local,
                   last_stat>>
    /\ UNCHANGED outside_fs

\* line 112
DirLock(c) == GateLock(c, "d_lock", "d_call")

\* lines 113-116: client.read_dir(path)?; drop(client); let now = Instant::now()
DirCall(c) ==
    /\ cpc[c] = "d_call"
    /\ \/ /\ entries_local' = [entries_local EXCEPT ![c] = Listing]
          /\ now_local' = [now_local EXCEPT ![c] = now]
          /\ last_stat' = [q \in Paths |->
                IF \E k \in 1..Len(Listing) :
                        FullPath(call[c].path, Listing[k][1]) = q
                THEN remote[q] ELSE last_stat[q]]
          /\ gate' = ""
          /\ cpc' = [cpc EXCEPT ![c] = "d_store_stats"]
          /\ UNCHANGED ret
       \/ /\ RemoteErr(c)
          /\ UNCHANGED <<entries_local, now_local, last_stat>>
    /\ UNCHANGED <<stats, dirs, now, remote, call, stat_local>>
    /\ UNCHANGED outside_fs

\* the stat cache after the loop of lines 119-132
RECURSIVE PutChildren(_, _, _, _)
PutChildren(m, path, entries, at) ==
    IF entries = << >> THEN m
    ELSE PutChildren(Put(m, FullPath(path, Head(entries)[1]),
                         [stat |-> Head(entries)[2], cached_at |-> at]),
                     path, Tail(entries), at)

\* lines 117-133
DirStoreStats(c) ==
    /\ cpc[c] = "d_store_stats"
    /\ stats' = PutChildren(stats, call[c].path, entries_local[c], now_local[c])
    /\ cpc' = [cpc EXCEPT ![c] = "d_store_dir"]
    /\ UNCHANGED <<gate, dirs, now, remote, call, stat_local, entries_local,
                   now_local, ret, last_stat>>
    /\ UNCHANGED outside_fs

\* lines 134-141
DirStoreDir(c) ==
    /\ cpc[c] = "d_store_dir"
    /\ dirs' = Put(dirs, call[c].path,
                   [entries |-> entries_local[c], cached_at |-> now_local[c]])
    /\ ret' = [ret EXCEPT ![c] = "fresh"]
    /\ now_local' = [now_local EXCEPT ![c] = 0]
    /\ cpc' = [cpc EXCEPT ![c] = "idle"]
    /\ UNCHANGED <<gate, stats, now, remote, call, stat_local, entries_local,
                   last_stat>>
    /\ UNCHANGED outside_fs

\* line 330
ReadLock(c) == GateLock(c, "r_lock", "r_call")

\* lines 334-338: client.read_file_range(..)?; drop(client)
ReadCall(c) ==
    /\ cpc[c] = "r_call"
    /\ \/ /\ gate' = ""
          /\ ret' = [ret EXCEPT ![c] = "ok"]
          /\ cpc' = [cpc EXCEPT ![c] = "idle"]
       \/ RemoteErr(c)
    /\ UNCHANGED <<stats, dirs, now, remote, call, stat_local, entries_local,
                   now_local, last_stat>>
    /\ UNCHANGED outside_fs

\* line 372
WriteLock(c) == GateLock(c, "w_lock", "w_call")

\* mutant: a write that succeeds drops the cached attributes of its path
WriteCall_Invalidate(c) ==
    /\ cpc[c] = "w_call"
    /\ \/ /\ remote[call[c].path] < MaxVer
          /\ remote' = [remote EXCEPT ![call[c].path] = @ + 1]
          /\ stats' = [x \in DOMAIN stats \ {call[c].path} |-> stats[x]]
          /\ gate' = ""
          /\ ret' = [ret EXCEPT ![c] = "ok"]
          /\ cpc' = [cpc EXCEPT ![c] = "idle"]
       \/ /\ RemoteErr(c)
          /\ UNCHANGED <<remote, stats>>
    /\ UNCHANGED <<dirs, now, call, stat_local, entries_local, now_local, last_stat>>
    /\ UNCHANGED outside_fs

\* lines 373-377: client.write_file(..)?; the guard lives until the return.
\* A write that succeeds changes the size and the time the server reports.
WriteCall(c) ==
    /\ cpc[c] = "w_call"
    /\ \/ /\ remote[call[c].path] < MaxVer
          /\ remote' = [remote EXCEPT ![call[c].path] = @ + 1]
          /\ gate' = ""
          /\ ret' = [ret EXCEPT ![c] = "ok"]
          /\ cpc' = [cpc EXCEPT ![c] = "idle"]
       \/ /\ RemoteErr(c)
          /\ UNCHANGED remote
    /\ UNCHANGED <<stats, dirs, now, call, stat_local, entries_local,
                   now_local, last_stat>>
    /\ UNCHANGED outside_fs

\* time passes
Tick ==
    /\ now < MaxTime
    /\ now' = now + 1
    /\ UNCHANGED <<gate, stats, dirs, remote, cpc, call, stat_local, entries_local,
                   now_local, ret, last_stat>>
    /\ UNCHANGED outside_fs

\* another client of the server changes the file
ServerChange ==
    /\ remote[ChildFile] < MaxVer
    /\ remote' = [remote EXCEPT ![ChildFile] = @ + 1]
    /\ UNCHANGED <<gate, stats, dirs, now, cpc, call, stat_local, entries_local,
                   now_local, ret, last_stat>>
    /\ UNCHANGED outside_fs

NextFs ==
    \/ \E c \in Callers :
        \/ stat_with_cache(c)
        \/ readdir_with_cache(c)
        \/ read(c)
        \/ write(c)
        \/ StatLookup(c)
        \/ StatLock(c)
        \/ StatCall(c)
        \/ StatStore(c)
        \/ DirLookup(c)
        \/ DirLock(c)
        \/ DirCall(c)
        \/ DirStoreStats(c)
        \/ DirStoreDir(c)
        \/ ReadLock(c)
        \/ ReadCall(c)
        \/ WriteLock(c)
        \/ WriteCall(c)
    \/ Tick
    \/ ServerChange

\* the steps a thread takes by itself once a callback is dispatched: the
\* look-ups and stores under the cache locks, which wait for no other lock
CacheSteps(c) ==
    \/ StatLookup(c)
    \/ StatStore(c)
    \/ DirLookup(c)
    \/ DirStoreStats(c)
    \/ DirStoreDir(c)

\* lines 86, 112, 330, 372: self.client.lock() returns
Acquire(c) ==
    \/ StatLock(c)
    \/ DirLock(c)
    \/ ReadLock(c)
    \/ WriteLock(c)

\* the remote call of the thread that holds the session returns
RemoteReturns(c) ==
    \/ StatCall(c)
    \/ DirCall(c)
    \/ ReadCall(c)
    \/ WriteCall(c)

\* the callbacks of Part II alone: no time passes and the server has no
\* other client
NextGate ==
    \E c \in Callers :
        \/ stat_with_cache(c)
        \/ readdir_with_cache(c)
        \/ read(c)
        \/ write(c)
        \/ CacheSteps(c)
        \/ Acquire(c)
        \/ RemoteReturns(c)

\* Part II starts with drive D mounted by instance 1
InitMounted ==
    /\ mounted = [d \in {"D"} |-> MountedDrive("c1", "D", 1)]
    /\ mu = ""
    /\ session = [i \in InstIds |-> IF i = 1 THEN "open" ELSE "none"]
    /\ host = [i \in InstIds |-> IF i = 1 THEN "started" ELSE "none"]
    /\ mount_point = [i \in InstIds |-> IF i = 1 THEN "D" ELSE ""]
    /\ inflight = NoInst
    /\ next_inst = 2
    /\ pc = [t \in Workers |-> "idle"]
    /\ op = [t \in Workers |-> NoOp]
    /\ client = [t \in Workers |-> NoInst]
    /\ dropping = [t \in Workers |-> NoInst]
    /\ result = [t \in Workers |-> "none"]
    /\ listed = [t \in Workers |-> {}]
    /\ ok_mounts = [d \in Drives |-> IF d = "D" THEN 1 ELSE 0]

(***************************************************************************)
(* Part III actions: filesystem.rs, the callbacks that use open_files.     *)
(* What a callback does with the session and the caches after its handle   *)
(* is resolved is kept at the grain of one step per lock: cache lookup,    *)
(* gate acquisition, remote call with the cache write that follows it.     *)
(***************************************************************************)
\* elements of a sequence
Range(q) == {q[k] : k \in DOMAIN q}

\* HashMap::remove
Del(m, k) == [x \in DOMAIN m \ {k} |-> m[x]]

\* what the server reports for the child once another client has replaced
\* the regular file by a directory of the same name
ReplacedByDir == MaxVer + 1

\* stat.is_dir(): the server reports the root as a directory and the child as
\* a regular file, until the child is replaced by a directory
is_dir(path, stat) == path = RootDir \/ stat = ReplacedByDir

\* the ssh2::FileStat of a path whose attributes are at version stat: size and
\* modification time change with every version
FileStat(path, stat) ==
    [size |-> FromInt(stat), mtime |-> FromInt(stat), dir |-> is_dir(path, stat)]

\* mutant: the default record has the permission bits of a regular file
default_dir_stat_File == [size |-> FromInt(0), mtime |-> DefaultTime, dir |-> FALSE]

\* lines 197-206: default_dir_stat (the permission bits 0o040755 make it a
\* directory)
default_dir_stat == [size |-> FromInt(0), mtime |-> DefaultTime, dir |-> TRUE]

\* what SftpClient::read_dir returns for a directory: the child that replaced
\* the file is empty
ListingOf(path) == IF path = RootDir THEN Listing ELSE << >>

\* the fields of SftpFileSystem that Part II describes, apart from the gate
\* and the two caches, and the threads of Part II
fs_rest == <<now, remote, cpc, call, stat_local, entries_local, now_local, ret,
             last_stat>>

\* the callback returns r
Return(c, r) ==
    /\ hret' = [hret EXCEPT ![c] = r]
    /\ hval' = [hval EXCEPT ![c] = NoVal]
    /\ hop' = [hop EXCEPT ![c] = NoHop]

\* the driver framework calls a callback on thread c
Invoke(c, name, h, p, stage) ==
    /\ hop[c].stage = "idle"
    /\ hop' = [hop EXCEPT ![c] = [name |-> name, handle |-> h, path |-> p,
                                  stage |-> stage]]
    /\ hret' = [hret EXCEPT ![c] = "pending"]
    /\ UNCHANGED <<next_handle, open_files, hval, adapter, issued, issued_before,
                   returned, closed>>
    /\ UNCHANGED fvars
    /\ UNCHANGED outside_handles

\* opens that have not reached create_handle yet
OpensAhead ==
    Cardinality({c \in Callers : hop[c].name = "open"
                                    /\ hop[c].stage \in {"stat", "stat_call"}})

\* lines 264-272: open(file_name)
open(c, p) ==
    /\ next_handle + OpensAhead <= MaxHandle
    /\ Invoke(c, "open", 0, p, "stat")

\* line 310
close(c, h) == Invoke(c, "close", h, << >>, "close")

\* line 315
read_handle(c, h) == Invoke(c, "read", h, << >>, "lookup")

\* line 355
write_handle(c, h) == Invoke(c, "write", h, << >>, "lookup")

\* line 380
get_file_info(c, h) == Invoke(c, "get_file_info", h, << >>, "lookup")

\* line 419
read_directory(c, h) == Invoke(c, "read_directory", h, << >>, "lookup")

\* lines 218-230: get_security_by_name(file_name) takes no handle
get_security_by_name(c, p) == Invoke(c, "get_security_by_name", 0, p, "stat")

\* mutant: the counter is read but not advanced
create_handle_Same(c) ==
    /\ hop' = [hop EXCEPT ![c].handle = next_handle, ![c].stage = "insert"]
    /\ issued' = Append(issued, next_handle)
    /\ UNCHANGED next_handle

\* lines 155-160: create_handle, under the write lock of next_handle
create_handle(c) ==
    /\ hop' = [hop EXCEPT ![c].handle = next_handle, ![c].stage = "insert"]
    /\ issued' = Append(issued, next_handle)
    /\ next_handle' = next_handle + 1

\* how the callback goes on when the function it called returned Ok(stat)
\* (ok) or Err:
\*   open, lines 276-299: NotFound, or the stat is kept and a handle taken;
\*   get_security_by_name, lines 235-260: the tag of the kind, or NotFound;
\*   read_directory, lines 451-456: a failed stat of the directory is replaced
\*     by default_dir_stat, then readdir_with_cache is called; lines 456-474:
\*     with the listing, "." and ".." are built from the stat of the directory
\*     (kept in hval) and the buffer is returned;
\*   otherwise the callback returns the result (`?` on the error)
Continue(c, ok, stat) ==
    CASE hop[c].name = "open" ->
            IF ok
            THEN /\ create_handle(c)
                 /\ hval' = [hval EXCEPT ![c] = [stat |-> stat]]
                 /\ UNCHANGED hret
            ELSE /\ Return(c, "not_found")
                 /\ UNCHANGED <<next_handle, issued>>
      [] hop[c].name = "get_security_by_name" ->
            /\ Return(c, IF ~ok THEN "not_found"
                         ELSE IF is_dir(hop[c].path, stat) THEN "directory"
                         ELSE "file")
            /\ UNCHANGED <<next_handle, issued>>
      [] hop[c].name = "read_directory" /\ hop[c].stage \in {"io", "io_call"} ->
            /\ hop' = [hop EXCEPT ![c] =
                          [name |-> hop[c].name, handle |-> hop[c].handle,
                           path |-> hop[c].path, stage |-> "list",
                           dir_stat |-> IF ok THEN FileStat(hop[c].path, stat)
                                        ELSE default_dir_stat]]
            /\ UNCHANGED <<hret, hval, next_handle, issued>>
      [] hop[c].name = "read_directory" /\ ok ->
            /\ hret' = [hret EXCEPT ![c] = "ok"]
            /\ hval' = [hval EXCEPT ![c] = hop[c].dir_stat]
            /\ hop' = [hop EXCEPT ![c] = NoHop]
            /\ UNCHANGED <<next_handle, issued>>
      [] OTHER ->
            /\ Return(c, IF ok THEN "ok" ELSE "remote_error")
            /\ UNCHANGED <<next_handle, issued>>

\* mutant: get_security_by_name goes to the server without a look at the cache
UsesStatCache_NotByName(c) ==
    \/ hop[c].name = "open" /\ hop[c].stage = "stat"
    \/ hop[c].name \in {"get_file_info", "read_directory"} /\ hop[c].stage = "io"

\* the function the callback calls at its stage consults a cache first
UsesStatCache(c) ==
    \/ hop[c].name \in {"open", "get_security_by_name"} /\ hop[c].stage = "stat"
    \/ hop[c].name \in {"get_file_info", "read_directory"} /\ hop[c].stage = "io"

UsesDirCache(c) == hop[c].name = "read_directory" /\ hop[c].stage = "list"

CacheValid(c) ==
    \/ UsesStatCache(c) /\ cached_stat(hop[c].path) # NoStat
    \/ UsesDirCache(c) /\ cached_dir_valid(hop[c].path)

\* lines 81-84 and 102-110: the cache answers and no remote call is made
CacheHit(c) ==
    /\ hop[c].stage \in {"stat", "io", "list"}
    /\ CacheValid(c)
    /\ Continue(c, TRUE, IF UsesStatCache(c) THEN stats[hop[c].path].stat ELSE NoStat)
    /\ UNCHANGED <<open_files, adapter, issued_before, returned, closed>>
    /\ UNCHANGED fvars
    /\ UNCHANGED outside_handles

\* lines 86, 112, 330, 372: self.client.lock()
TakeGate(c) ==
    /\ hop[c].stage \in {"stat", "io", "list"}
    /\ ~CacheValid(c)
    /\ gate = ""
    /\ gate' = c
    /\ hop' = [hop EXCEPT ![c].stage =
                  CASE hop[c].stage = "stat" -> "stat_call"
                    [] hop[c].stage = "io" -> "io_call"
                    [] OTHER -> "list_call"]
    /\ UNCHANGED <<next_handle, open_files, hret, hval, adapter, issued,
                   issued_before, returned, closed>>
    /\ UNCHANGED <<stats, dirs, fs_rest>>
    /\ UNCHANGED outside_handles

\* mutant: read, write and get_file_info try again after a remote error
RemoteDone_Retry(c) ==
    /\ hop[c].stage \in {"stat_call", "io_call", "list_call"}
    /\ gate = c
    /\ gate' = ""
    /\ \E ok \in BOOLEAN :
        /\ IF ~ok /\ hop[c].name \in {"read", "write", "get_file_info"}
           THEN /\ hop' = [hop EXCEPT ![c].stage = "io"]
                /\ UNCHANGED <<hret, hval, next_handle, issued>>
           ELSE Continue(c, ok, remote[hop[c].path])
        /\ IF ok /\ hop[c].stage = "list_call"
           THEN /\ stats' = PutChildren(stats, hop[c].path, ListingOf(hop[c].path), now)
                /\ dirs' = Put(dirs, hop[c].path,
                               [entries |-> ListingOf(hop[c].path), cached_at |-> now])
           ELSE IF ok /\ hop[c].name \in {"open", "get_security_by_name",
                                          "get_file_info", "read_directory"}
           THEN /\ stats' = Put(stats, hop[c].path,
                                [stat |-> remote[hop[c].path], cached_at |-> now])
                /\ UNCHANGED dirs
           ELSE UNCHANGED <<stats, dirs>>
    /\ UNCHANGED <<open_files, adapter, issued_before, returned, closed>>
    /\ UNCHANGED fs_rest
    /\ UNCHANGED outside_handles

\* lines 87-96, 113-140, 334-338, 373-377: the remote call returns, the gate
\* is released, and a stat or a listing that succeeded is written to its cache
RemoteDone(c) ==
    /\ hop[c].stage \in {"stat_call", "io_call", "list_call"}
    /\ gate = c
    /\ gate' = ""
    /\ \E ok \in BOOLEAN :
        /\ Continue(c, ok, remote[hop[c].path])
        /\ IF ok /\ hop[c].stage = "list_call"
           THEN /\ stats' = PutChildren(stats, hop[c].path, ListingOf(hop[c].path), now)
                /\ dirs' = Put(dirs, hop[c].path,
                               [entries |-> ListingOf(hop[c].path), cached_at |-> now])
           ELSE IF ok /\ hop[c].name \in {"open", "get_security_by_name",
                                          "get_file_info", "read_directory"}
           THEN /\ stats' = Put(stats, hop[c].path,
                                [stat |-> remote[hop[c].path], cached_at |-> now])
                /\ UNCHANGED dirs
           ELSE UNCHANGED <<stats, dirs>>
    /\ UNCHANGED <<open_files, adapter, issued_before, returned, closed>>
    /\ UNCHANGED fs_rest
    /\ UNCHANGED outside_handles

\* lines 300-307: the context is inserted and the handle returned
OpenInsert(c) ==
    /\ hop[c].stage = "insert"
    /\ LET context == [path |-> hop[c].path,
                       is_directory |-> is_dir(hop[c].path, hval[c].stat)]
       IN /\ open_files' = Put(open_files, hop[c].handle, context)
          /\ returned' = Put(returned, hop[c].handle, context)
    /\ Return(c, "ok")
    /\ UNCHANGED <<next_handle, adapter, issued, issued_before, closed>>
    /\ UNCHANGED fvars
    /\ UNCHANGED outside_handles

\* mutant: close leaves the registry alone
CloseRemove_Keep(c) ==
    /\ hop[c].stage = "close"
    /\ closed' = closed \cup ({hop[c].handle} \cap DOMAIN returned)
    /\ Return(c, "closed")
    /\ UNCHANGED <<next_handle, open_files, adapter, issued, issued_before,
                   returned>>
    /\ UNCHANGED fvars
    /\ UNCHANGED outside_handles

\* lines 310-313: self.open_files.write().remove(&file_context); close
\* returns no Result
CloseRemove(c) ==
    /\ hop[c].stage = "close"
    /\ open_files' = Del(open_files, hop[c].handle)
    /\ closed' = closed \cup ({hop[c].handle} \cap DOMAIN returned)
    /\ Return(c, "closed")
    /\ UNCHANGED <<next_handle, adapter, issued, issued_before, returned>>
    /\ UNCHANGED fvars
    /\ UNCHANGED outside_handles

\* mutant: read_directory asks what the path is on the server now
Resolved_CurrentKind(c, context) ==
    IF hop[c].name = "read_directory"
          /\ ~is_dir(context.path, remote[context.path])
    THEN Return(c, "not_a_directory")
    ELSE /\ hop' = [hop EXCEPT ![c].path = context.path, ![c].stage = "io"]
         /\ hval' = [hval EXCEPT ![c] = context]
         /\ UNCHANGED hret

\* what the callback does with the context its handle resolved to: lines
\* 443-446, read_directory refuses a handle that is not a directory
Resolved(c, context) ==
    IF hop[c].name = "read_directory" /\ ~context.is_directory
    THEN Return(c, "not_a_directory")
    ELSE /\ hop' = [hop EXCEPT ![c].path = context.path, ![c].stage = "io"]
         /\ hval' = [hval EXCEPT ![c] = context]
         /\ UNCHANGED hret

\* mutant: an unknown handle is resolved to the remote root
Lookup_Lenient(c) ==
    /\ hop[c].stage = "lookup"
    /\ Resolved(c, IF hop[c].handle \in DOMAIN open_files
                   THEN open_files[hop[c].handle]
                   ELSE [path |-> RootDir, is_directory |-> TRUE])
    /\ UNCHANGED <<next_handle, open_files, adapter, issued, issued_before,
                   returned, closed>>
    /\ UNCHANGED fvars
    /\ UNCHANGED outside_handles

\* mutant: the context is resolved to the path of the newest handle
Lookup_Newest(c) ==
    /\ hop[c].stage = "lookup"
    /\ IF hop[c].handle \in DOMAIN open_files
       THEN Resolved(c, open_files[CHOOSE h \in DOMAIN open_files :
                                      \A g \in DOMAIN open_files : g <= h])
       ELSE Return(c, "invalid_handle")
    /\ UNCHANGED <<next_handle, open_files, adapter, issued, issued_before,
                   returned, closed>>
    /\ UNCHANGED fvars
    /\ UNCHANGED outside_handles

\* lines 321-327, 364-370, 385-391, 427-433: files.get(file_context) under
\* the read lock of open_files; an unknown handle is "Invalid handle"
Lookup(c) ==
    /\ hop[c].stage = "lookup"
    /\ IF hop[c].handle \in DOMAIN open_files
       THEN Resolved(c, open_files[hop[c].handle])
       ELSE Return(c, "invalid_handle")
    /\ UNCHANGED <<next_handle, open_files, adapter, issued, issued_before,
                   returned, closed>>
    /\ UNCHANGED fvars
    /\ UNCHANGED outside_handles

\* the drive is unmounted and mounted again: create_filesystem_host builds a
\* new SftpFileSystem for the new host
Remount ==
    /\ \A c \in Callers : hop[c].stage = "idle"
    /\ adapter < MaxAdapters
    /\ adapter' = adapter + 1
    /\ next_handle' = 1
    /\ open_files' = << >>
    /\ issued_before' = issued_before \cup Range(issued)
    /\ issued' = << >>
    /\ returned' = << >>
    /\ closed' = {}
    /\ stats' = << >>
    /\ dirs' = << >>
    /\ UNCHANGED <<hop, hret, hval>>
    /\ UNCHANGED <<gate, fs_rest>>
    /\ UNCHANGED outside_handles

\* another client of the server replaces the regular file by a directory
ServerReplace ==
    /\ remote[ChildFile] # ReplacedByDir
    /\ remote' = [remote EXCEPT ![ChildFile] = ReplacedByDir]
    /\ UNCHANGED hvars
    /\ UNCHANGED <<gate, stats, dirs, now, cpc, call, stat_local, entries_local,
                   now_local, ret, last_stat>>
    /\ UNCHANGED outside_handles

\* names are resolved, paths opened and directories enumerated while the
\* child changes its kind on the server
NextNames ==
    \/ \E c \in Callers :
        \/ \E p \in Paths :
            \/ open(c, p)
            \/ get_security_by_name(c, p)
        \/ \E h \in HandleArgs : read_directory(c, h)
        \/ OpenInsert(c)
        \/ Lookup(c)
        \/ CacheHit(c)
        \/ TakeGate(c)
        \/ RemoteDone(c)
    \/ ServerReplace

\* files are opened, read, written and asked for their attributes, with the
\* root open from the start
NextIo ==
    \E c \in Callers :
        \/ \E p \in Paths : open(c, p)
        \/ \E h \in HandleArgs :
            \/ read_handle(c, h)
            \/ write_handle(c, h)
            \/ get_file_info(c, h)
        \/ OpenInsert(c)
        \/ Lookup(c)
        \/ CacheHit(c)
        \/ TakeGate(c)
        \/ RemoteDone(c)

NextHandles ==
    \/ \E c \in Callers :
        \/ \E p \in Paths : open(c, p)
        \/ \E h \in HandleArgs :
            \/ close(c, h)
            \/ read_handle(c, h)
            \/ write_handle(c, h)
            \/ get_file_info(c, h)
            \/ read_directory(c, h)
        \/ OpenInsert(c)
        \/ CloseRemove(c)
        \/ Lookup(c)
        \/ CacheHit(c)
        \/ TakeGate(c)
        \/ RemoteDone(c)

\* the same callbacks in a process that unmounts and mounts again
NextRemount ==
    \/ NextHandles
    \/ Remount

(***************************************************************************)
(* Part IV actions: SftpFileSystem::read / write (filesystem.rs) and       *)
(* SftpClient::read_file_range / write_file (sftp_client.rs)               *)
(***************************************************************************)
Min(a, b) == IF a <= b THEN a ELSE b

\* vec![0u8; length]
Zeroed(length) == [k \in 1..length |-> Blank]

\* the first n places of buf are overwritten with the first n of src
Fill(buf, src, n) == [k \in 1..Len(buf) |-> IF k <= n THEN src[k] ELSE buf[k]]

\* bytes of file from offset on (file.seek(SeekFrom::Start(offset)))
Rest(file, offset) ==
    IF offset >= Len(file) THEN << >> ELSE SubSeq(file, offset + 1, Len(file))

\* the counts one file.read(&mut buffer) may return: 0 at end of file or for
\* an empty buffer, otherwise at least one byte and at most what is there
ReadCounts(file, offset, length) ==
    LET most == Min(length, Len(Rest(file, offset)))
    IN IF most = 0 THEN {0} ELSE 1..most

\* mutant: the buffer is returned at its full length
read_file_range_NoTruncate(file, offset, length, n) ==
    Fill(Zeroed(length), Rest(file, offset), n)

\* sftp_client.rs lines 153-176: open, seek, one read into a buffer of
\* `length` bytes that returned n, truncate(n)
read_file_range(file, offset, length, n) ==
    SubSeq(Fill(Zeroed(length), Rest(file, offset), n), 1, n)

\* the driver framework, or a caller of SftpClient, starts a call on thread c
Start(c, kind, offset, length, bytes, first) ==
    /\ dpc[c] = "idle"
    /\ dpc' = [dpc EXCEPT ![c] = first]
    /\ io' = [io EXCEPT ![c] = [op |-> kind, offset |-> offset, length |-> length,
                                bytes |-> bytes]]
    /\ data' = [data EXCEPT ![c] = << >>]
    /\ buffer' = [buffer EXCEPT ![c] = Zeroed(IF kind = "read" THEN length ELSE 0)]
    /\ bytes_read' = [bytes_read EXCEPT ![c] = -1]
    /\ dres' = [dres EXCEPT ![c] = "pending"]
    /\ following' = IF kind = "read_whole" /\ last_writer # ""
                    THEN following \cup {c}
                    ELSE following \ {c}
    /\ UNCHANGED <<content, written, last_writer>>
    /\ UNCHANGED fvars
    /\ UNCHANGED outside_data

\* filesystem.rs lines 315-329: read(handle, buffer, offset) with the handle
\* resolved
read_at(c, offset, length) == Start(c, "read", offset, length, << >>, "r_lock")

\* filesystem.rs lines 355-370: write(handle, buffer, ..) with the handle
\* resolved
write_buffer(c, bytes) == Start(c, "write", 0, Len(bytes), bytes, "w_lock")

\* filesystem.rs lines 355-370: write as the driver calls it, with an offset
\* and the write-to-end flag
write_at(c, bytes, offset, write_to_end_of_file) ==
    /\ dpc[c] = "idle"
    /\ dpc' = [dpc EXCEPT ![c] = "w_lock"]
    /\ io' = [io EXCEPT ![c] = [op |-> "write", offset |-> offset,
                                length |-> Len(bytes), bytes |-> bytes,
                                write_to_end_of_file |-> write_to_end_of_file]]
    /\ data' = [data EXCEPT ![c] = << >>]
    /\ buffer' = [buffer EXCEPT ![c] = << >>]
    /\ bytes_read' = [bytes_read EXCEPT ![c] = -1]
    /\ dres' = [dres EXCEPT ![c] = "pending"]
    /\ following' = following \ {c}
    /\ UNCHANGED <<content, written, last_writer>>
    /\ UNCHANGED fvars
    /\ UNCHANGED outside_data

\* a caller reads the whole file with read_file_range, `length` bytes at a
\* time, until a call returns nothing
read_whole(c, length) == Start(c, "read_whole", 0, length, << >>, "a_lock")

\* filesystem.rs lines 330, 372: self.client.lock()
DataLock(c) ==
    /\ dpc[c] \in {"r_lock", "w_lock", "a_lock"}
    /\ gate = ""
    /\ gate' = c
    /\ dpc' = [dpc EXCEPT ![c] = CASE dpc[c] = "r_lock" -> "r_call"
                                   [] dpc[c] = "w_lock" -> "w_call"
                                   [] OTHER -> "a_call"]
    /\ UNCHANGED <<content, io, data, buffer, bytes_read, dres, written, last_writer,
                   following>>
    /\ UNCHANGED <<stats, dirs, fs_rest>>
    /\ UNCHANGED outside_data

\* the remote call fails: `?` returns the error and the guard is dropped
DataErr(c) ==
    /\ gate' = ""
    /\ dres' = [dres EXCEPT ![c] = "err"]
    /\ dpc' = [dpc EXCEPT ![c] = "idle"]

\* mutant: the read starts where the other reader's request starts
ReadRange_OtherOffset(c) ==
    /\ dpc[c] = "r_call"
    /\ gate = c
    /\ LET others == {o \in Callers : o # c /\ io[o].op = "read"}
           offset == IF others = {} THEN io[c].offset
                     ELSE io[CHOOSE o \in others : TRUE].offset
       IN \E n \in ReadCounts(content, offset, io[c].length) :
            /\ data' = [data EXCEPT ![c] =
                           read_file_range(content, offset, io[c].length, n)]
            /\ gate' = ""
            /\ dpc' = [dpc EXCEPT ![c] = "r_copy"]
            /\ UNCHANGED dres
    /\ UNCHANGED <<content, io, buffer, bytes_read, written, last_writer, following>>
    /\ UNCHANGED <<stats, dirs, fs_rest>>
    /\ UNCHANGED outside_data

\* filesystem.rs lines 334-338: client.read_file_range(&path, offset,
\* buffer.len())?; drop(client)
ReadRange(c) ==
    /\ dpc[c] = "r_call"
    /\ gate = c
    /\ \/ \E n \in ReadCounts(content, io[c].offset, io[c].length) :
            /\ data' = [data EXCEPT ![c] =
                           read_file_range(content, io[c].offset, io[c].length, n)]
            /\ gate' = ""
            /\ dpc' = [dpc EXCEPT ![c] = "r_copy"]
            /\ UNCHANGED dres
       \/ /\ DataErr(c)
          /\ UNCHANGED data
    /\ UNCHANGED <<content, io, buffer, bytes_read, written, last_writer, following>>
    /\ UNCHANGED <<stats, dirs, fs_rest>>
    /\ UNCHANGED outside_data

\* filesystem.rs lines 340-352: the bytes are copied into the caller's buffer
\* and their number is returned
ReadCopy(c) ==
    /\ dpc[c] = "r_copy"
    /\ LET n == Min(Len(data[c]), Len(buffer[c]))
       IN /\ buffer' = [buffer EXCEPT ![c] = Fill(buffer[c], data[c], n)]
          /\ bytes_read' = [bytes_read EXCEPT ![c] = n]
    /\ dres' = [dres EXCEPT ![c] = "ok"]
    /\ dpc' = [dpc EXCEPT ![c] = "idle"]
    /\ UNCHANGED <<content, io, data, written, last_writer, following>>
    /\ UNCHANGED fvars
    /\ UNCHANGED outside_data

\* mutant: the file is opened without truncation
WriteFile_NoTruncate(c) ==
    /\ dpc[c] = "w_call"
    /\ gate = c
    /\ content' = io[c].bytes \o Rest(content, Len(io[c].bytes))
    /\ written' = io[c].bytes
    /\ last_writer' = c
    /\ following' = {}
    /\ bytes_read' = [bytes_read EXCEPT ![c] = Len(io[c].bytes)]
    /\ gate' = ""
    /\ dres' = [dres EXCEPT ![c] = "ok"]
    /\ dpc' = [dpc EXCEPT ![c] = "idle"]
    /\ UNCHANGED <<io, data, buffer>>
    /\ UNCHANGED <<stats, dirs, fs_rest>>
    /\ UNCHANGED outside_data

\* the file after bytes were put at offset, the gap filled
PutAt(file, offset, bytes) ==
    LET n == IF Len(file) > offset + Len(bytes) THEN Len(file)
             ELSE offset + Len(bytes)
    IN [k \in 1..n |-> IF k > offset /\ k <= offset + Len(bytes) THEN bytes[k - offset]
                       ELSE IF k <= Len(file) THEN file[k]
                       ELSE Blank]

\* mutant: the bytes go to the offset the caller gave, or to the end of the
\* file when the flag is set
WriteFile_AtOffset(c) ==
    /\ dpc[c] = "w_call"
    /\ gate = c
    /\ LET flag == "write_to_end_of_file" \in DOMAIN io[c]
                      /\ io[c].write_to_end_of_file
           at == IF flag THEN Len(content) ELSE io[c].offset
       IN content' = PutAt(content, at, io[c].bytes)
    /\ written' = io[c].bytes
    /\ last_writer' = c
    /\ following' = {}
    /\ bytes_read' = [bytes_read EXCEPT ![c] = Len(io[c].bytes)]
    /\ gate' = ""
    /\ dres' = [dres EXCEPT ![c] = "ok"]
    /\ dpc' = [dpc EXCEPT ![c] = "idle"]
    /\ UNCHANGED <<io, data, buffer>>
    /\ UNCHANGED <<stats, dirs, fs_rest>>
    /\ UNCHANGED outside_data

\* filesystem.rs lines 373-377 and sftp_client.rs lines 179-187: create
\* (which truncates) and write_all. create may fail; write_all may fail after
\* part of the bytes; otherwise the file holds the buffer and its length is
\* reported. The guard is dropped at the return.
WriteFile(c) ==
    /\ dpc[c] = "w_call"
    /\ gate = c
    /\ \/ /\ content' = io[c].bytes
          /\ written' = io[c].bytes
          /\ last_writer' = c
          /\ following' = {}
          /\ bytes_read' = [bytes_read EXCEPT ![c] = Len(io[c].bytes)]
          /\ gate' = ""
          /\ dres' = [dres EXCEPT ![c] = "ok"]
          /\ dpc' = [dpc EXCEPT ![c] = "idle"]
       \/ /\ DataErr(c)
          /\ UNCHANGED <<content, written, last_writer, following, bytes_read>>
       \/ \E k \in 0..(Len(io[c].bytes) - 1) :
            /\ DataErr(c)
            /\ content' = SubSeq(io[c].bytes, 1, k)
            /\ last_writer' = ""
            /\ written' = << >>
            /\ following' = {}
            /\ UNCHANGED bytes_read
    /\ UNCHANGED <<io, data, buffer>>
    /\ UNCHANGED <<stats, dirs, fs_rest>>
    /\ UNCHANGED outside_data

\* one read_file_range of the whole-file read: the bytes are appended and the
\* next call starts where this one ended; a call that returns nothing ends it
ReadWholeStep(c) ==
    /\ dpc[c] = "a_call"
    /\ gate = c
    /\ \/ \E n \in ReadCounts(content, io[c].offset, io[c].length) :
            /\ data' = [data EXCEPT ![c] =
                  @ \o read_file_range(content, io[c].offset, io[c].length, n)]
            /\ io' = [io EXCEPT ![c].offset = @ + n]
            /\ gate' = ""
            /\ IF n = 0
               THEN /\ dres' = [dres EXCEPT ![c] = "ok"]
                    /\ dpc' = [dpc EXCEPT ![c] = "idle"]
               ELSE /\ dpc' = [dpc EXCEPT ![c] = "a_lock"]
                    /\ UNCHANGED dres
       \/ /\ DataErr(c)
          /\ UNCHANGED <<data, io>>
    /\ UNCHANGED <<content, buffer, bytes_read, written, last_writer, following>>
    /\ UNCHANGED <<stats, dirs, fs_rest>>
    /\ UNCHANGED outside_data

\* two threads read ranges of the file
NextData ==
    \E c \in Callers :
        \/ \E offset \in 0..MaxLen, length \in 0..MaxLen : read_at(c, offset, length)
        \/ DataLock(c)
        \/ ReadRange(c)
        \/ ReadCopy(c)

\* the buffers of the writes: one of each length
WriteBuffers == {[k \in 1..n |-> IF k % 2 = 1 THEN "y" ELSE "x"] : n \in 0..MaxLen}

\* two threads write the file, with any offset and flag
NextWrite ==
    \E c \in Callers :
        \/ \E bytes \in WriteBuffers, offset \in {0, MaxLen},
              write_to_end_of_file \in BOOLEAN :
                write_at(c, bytes, offset, write_to_end_of_file)
        \/ DataLock(c)
        \/ WriteFile(c)

\* two threads write the file and read it whole
NextRoundTrip ==
    \E c \in Callers :
        \/ \E bytes \in SeqsUpTo(MaxLen) : write_buffer(c, bytes)
        \/ read_whole(c, MaxLen)
        \/ DataLock(c)
        \/ WriteFile(c)
        \/ ReadWholeStep(c)

(***************************************************************************)
(* Part V actions: the loop of read_directory                              *)
(***************************************************************************)
\* mutant: the listing is taken as it is
all_entries_Raw(entries) == <<".", "..">> \o entries

\* filesystem.rs lines 470-481: ".", "..", then the listing without its own
\* "." and ".."
all_entries(entries) ==
    <<".", "..">> \o SelectSeq(entries, LAMBDA name : name # "." /\ name # "..")

\* what an entry takes in the buffer: a header and its name
Size(name) == 1 + Units(name)

\* mutant: the marker entry is emitted again
Loop_FromMarker(all, i, marker_name, found_marker, room, out) ==
    LET RECURSIVE Go(_, _, _, _)
        Go(k, found, left, acc) ==
            IF k > Len(all) THEN acc
            ELSE IF ~found /\ all[k] # marker_name THEN Go(k + 1, FALSE, left, acc)
            ELSE IF Units(all[k]) > MaxName THEN Go(k + 1, TRUE, left, acc)
            ELSE IF Size(all[k]) > left THEN acc
            ELSE Go(k + 1, TRUE, left - Size(all[k]), Append(acc, all[k]))
    IN Go(i, found_marker, room, out)

\* mutant: a marker that is not found makes the enumeration start over
Loop_Restart(all, i, marker_name, found_marker, room, out) ==
    LET RECURSIVE Go(_, _, _, _)
        Go(k, found, left, acc) ==
            IF k > Len(all) THEN acc
            ELSE IF ~found THEN Go(k + 1, all[k] = marker_name, left, acc)
            ELSE IF Units(all[k]) > MaxName THEN Go(k + 1, TRUE, left, acc)
            ELSE IF Size(all[k]) > left THEN acc
            ELSE Go(k + 1, TRUE, left - Size(all[k]), Append(acc, all[k]))
    IN Go(i, found_marker \/ \A k \in 1..Len(all) : all[k] # marker_name, room, out)

\* mutant: an entry that does not fit is passed over and the loop goes on
Loop_PassUnfit(all, i, marker_name, found_marker, room, out) ==
    LET RECURSIVE Go(_, _, _, _)
        Go(k, found, left, acc) ==
            IF k > Len(all) THEN acc
            ELSE IF ~found THEN Go(k + 1, all[k] = marker_name, left, acc)
            ELSE IF Units(all[k]) > MaxName THEN Go(k + 1, TRUE, left, acc)
            ELSE IF Size(all[k]) > left THEN Go(k + 1, TRUE, left, acc)
            ELSE Go(k + 1, TRUE, left - Size(all[k]), Append(acc, all[k]))
    IN Go(i, found_marker, room, out)

\* filesystem.rs lines 489-513: entries up to and including the marker are
\* passed over; an entry whose name set_name refuses is passed over; the first
\* entry that does not fit ends the loop
Loop(all, i, marker_name, found_marker, room, out) ==
    LET RECURSIVE Go(_, _, _, _)
        Go(k, found, left, acc) ==
            IF k > Len(all) THEN acc
            ELSE IF ~found THEN Go(k + 1, all[k] = marker_name, left, acc)
            ELSE IF Units(all[k]) > MaxName THEN Go(k + 1, TRUE, left, acc)
            ELSE IF Size(all[k]) > left THEN acc
            ELSE Go(k + 1, TRUE, left - Size(all[k]), Append(acc, all[k]))
    IN Go(i, found_marker, room, out)

\* filesystem.rs lines 469-516 with the handle resolved and the listing read
Call(marker, room) ==
    /\ dir_marker' = marker
    /\ dir_room' = room
    /\ dir_out' = Loop(all_entries(dir_listing), 1, marker, marker = NoMarker,
                       room, << >>)
    /\ enumerated' = TRUE
    /\ UNCHANGED dir_listing
    /\ UNCHANGED outside_dir

\* one call of read_directory, with any marker
Enumerate(marker, room) ==
    /\ Call(marker, room)
    /\ UNCHANGED lvars

NextDir ==
    \E marker \in Names \cup {NoMarker}, room \in 0..MaxRoom : Enumerate(marker, room)

\* what the listing loop does with the names a call gave it
Collect ==
    /\ emitted' = emitted \o dir_out'
    /\ loop_pc' = IF dir_out' = << >> THEN "done" ELSE "resume"
    /\ loop_calls' = loop_calls + 1

\* the first call of the loop: no marker
FirstCall(room) ==
    /\ loop_pc = "first"
    /\ Call(NoMarker, room)
    /\ Collect

\* a later call: the marker is the last name of the call before, the buffer
\* is the same
ResumeCall ==
    /\ loop_pc = "resume"
    /\ loop_calls < MaxCalls
    /\ Call(dir_out[Len(dir_out)], dir_room)
    /\ Collect

NextLoop ==
    \/ \E room \in 0..MaxRoom : FirstCall(room)
    \/ ResumeCall

(***************************************************************************)
(* Part VI actions: the conversion of attributes                           *)
(***************************************************************************)
\* the result of a u64 operation whose exact value is x
U64(x, build) ==
    IF Wrap64(x) = x THEN x ELSE IF build = "debug" THEN Panic ELSE Wrap64(x)

\* x & !4095
ClearLow(x) == [x EXCEPT ![1] = 0]

\* lines 210-213: (unix_time + UNIX_TO_WINDOWS_EPOCH) * 10_000_000
unix_to_windows_time(unix_time, build) ==
    LET sum == U64(Add(unix_time, UNIX_TO_WINDOWS_EPOCH), build)
    IN IF sum = Panic THEN Panic
       ELSE U64(MulSmall(MulSmall(sum, 10000), 1000), build)

\* lines 163-194: stat_to_file_info
stat_to_file_info(stat, build) ==
    LET file_size == IF stat.size = None THEN FromInt(0) ELSE stat.size
        sum == U64(Add(file_size, FromInt(4095)), build)
        time == unix_to_windows_time(IF stat.mtime = None THEN DefaultTime
                                     ELSE stat.mtime, build)
    IN IF sum = Panic \/ time = Panic THEN PanicInfo
       ELSE [status |-> "ok", file_size |-> file_size,
             allocation_size |-> ClearLow(sum),
             file_attributes |-> IF stat.dir THEN 16 ELSE 128,
             last_write_time |-> time, last_access_time |-> time,
             creation_time |-> time, change_time |-> time]

\* lines 292, 400: open and get_file_info convert the attribute record
Convert(build) ==
    /\ file_info' = stat_to_file_info(stat_in, build)
    /\ UNCHANGED stat_in
    /\ UNCHANGED outside_conv

NextConv == \E build \in Builds : Convert(build)

(***************************************************************************)
(* Part VII actions: connect                                               *)
(***************************************************************************)
\* connect returns r
ConnectReturn(r) ==
    /\ conn_result' = r
    /\ conn_pc' = "done"

\* sftp_client.rs lines 26-40: TCP connection, timeouts, session, handshake
Handshake ==
    /\ conn_pc = "start"
    /\ \/ conn_pc' = "verify" /\ UNCHANGED conn_result
       \/ ConnectReturn("connect_error")
    /\ UNCHANGED <<known_hosts, conn_port, server_key, password, credential_sent>>
    /\ UNCHANGED outside_connect

\* known_hosts.check(host, key) = check_port(host, -1, key): the lines are
\* searched for the name as it is given
check(name, key) ==
    IF name \notin DOMAIN known_hosts.lines THEN "NotFound"
    ELSE IF known_hosts.lines[name] = key THEN "Match"
    ELSE "Mismatch"

\* lines 76-109: verify_known_host, called at line 43; a file that exists is
\* read (which may fail) and asked for "[host]:port"
VerifyKnownHost ==
    /\ conn_pc = "verify"
    /\ IF known_hosts.exists
       THEN \/ IF check(Bracketed(conn_port), server_key) = "Mismatch"
               THEN ConnectReturn("host_key_error")
               ELSE conn_pc' = "auth" /\ UNCHANGED conn_result
            \/ ConnectReturn("known_hosts_error")
       ELSE conn_pc' = "auth" /\ UNCHANGED conn_result
    /\ UNCHANGED <<known_hosts, conn_port, server_key, password, credential_sent>>
    /\ UNCHANGED outside_connect

\* lines 46-66: without a password connect returns before anything is sent;
\* otherwise the password goes to the server, which accepts it or not
Authenticate ==
    /\ conn_pc = "auth"
    /\ IF ~password
       THEN /\ ConnectReturn("auth_error")
            /\ UNCHANGED credential_sent
       ELSE /\ credential_sent' = TRUE
            /\ \/ conn_pc' = "sftp" /\ UNCHANGED conn_result
               \/ ConnectReturn("auth_error")
    /\ UNCHANGED <<known_hosts, conn_port, server_key, password>>
    /\ UNCHANGED outside_connect

\* lines 69-73: session.sftp(); Ok(Self { session, sftp })
OpenSftp ==
    /\ conn_pc = "sftp"
    /\ \/ ConnectReturn("ok")
       \/ ConnectReturn("sftp_error")
    /\ UNCHANGED <<known_hosts, conn_port, server_key, password, credential_sent>>
    /\ UNCHANGED outside_connect

NextConnect ==
    \/ Handshake
    \/ VerifyKnownHost
    \/ Authenticate
    \/ OpenSftp

vars == <<mvars, fvars, hvars, dvars, evars, cvars, nvars, lvars>>

Init ==
    InitMount /\ InitFs /\ InitHandles /\ InitData /\ InitDir /\ InitConv /\ InitConnect
        /\ InitLoop

Next == NextMount

Spec == Init /\ [][Next]_vars

\* one drive mounted, its adapter freshly constructed
InitServing == InitMounted /\ InitFs /\ InitHandles /\ InitData /\ InitDir /\ InitConv
        /\ InitConnect /\ InitLoop

\* the same with any file on the server
InitServingFile ==
    InitMounted /\ InitFs /\ InitHandles /\ InitAnyData /\ InitDir /\ InitConv
        /\ InitConnect /\ InitLoop

\* one drive mounted, any listing in its directory
InitServingDir ==
    InitMounted /\ InitFs /\ InitHandles /\ InitData /\ InitAnyDir /\ InitConv
        /\ InitConnect /\ InitLoop

\* one drive mounted, any attribute record to convert
InitServingStat ==
    InitMounted /\ InitFs /\ InitHandles /\ InitData /\ InitDir /\ InitAnyConv
        /\ InitConnect /\ InitLoop

SpecFs == InitServing /\ [][NextFs]_vars

\* a running thread goes on, every remote call returns, and a thread that
\* finds the session free again and again gets it (the mutex is fair); the
\* driver is free to dispatch no further callback
Fairness ==
    \A c \in Callers :
        /\ WF_vars(CacheSteps(c))
        /\ WF_vars(RemoteReturns(c))
        /\ SF_vars(Acquire(c))

SpecFair == InitServing /\ [][NextGate]_vars /\ Fairness

SpecHandles == InitServing /\ [][NextHandles]_vars

SpecRemount == InitServing /\ [][NextRemount]_vars

\* the adapter after thread k1 opened the root at time 0: handle 1 is in the
\* registry and the stat of the root in the cache; since then no time has
\* passed, or the whole TTL
InitOpened ==
    /\ InitMounted
    /\ gate = ""
    /\ stats = Put(<< >>, RootDir, [stat |-> 0, cached_at |-> 0])
    /\ dirs = << >>
    /\ now \in {0, STAT_CACHE_TTL_SECS}
    /\ remote = [p \in Paths |-> 0]
    /\ cpc = [c \in Callers |-> "idle"]
    /\ call = [c \in Callers |-> NoCall]
    /\ stat_local = [c \in Callers |-> NoStat]
    /\ entries_local = [c \in Callers |-> << >>]
    /\ now_local = [c \in Callers |-> 0]
    /\ ret = [c \in Callers |-> "none"]
    /\ last_stat = [p \in Paths |-> NoStat]
    /\ next_handle = 2
    /\ open_files = Put(<< >>, 1, [path |-> RootDir, is_directory |-> TRUE])
    /\ hop = [c \in Callers |-> NoHop]
    /\ hret = [c \in Callers |-> IF c = "k1" THEN "ok" ELSE "none"]
    /\ hval = [c \in Callers |-> NoVal]
    /\ adapter = 1
    /\ issued = <<1>>
    /\ issued_before = {}
    /\ returned = Put(<< >>, 1, [path |-> RootDir, is_directory |-> TRUE])
    /\ closed = {}
    /\ InitData /\ InitDir /\ InitConv /\ InitConnect /\ InitLoop

SpecNames == InitOpened /\ [][NextNames]_vars

SpecIo == InitOpened /\ [][NextIo]_vars

SpecData == InitServingFile /\ [][NextData]_vars

SpecRoundTrip == InitServingFile /\ [][NextRoundTrip]_vars

SpecWrite == InitServingFile /\ [][NextWrite]_vars

SpecDir == InitServingDir /\ [][NextDir]_vars

SpecLoop == InitServingDir /\ [][NextLoop]_vars

SpecConv == InitServingStat /\ [][NextConv]_vars

\* a connect of the mount command, before any drive is mounted
InitConnecting ==
    InitMount /\ InitFs /\ InitHandles /\ InitData /\ InitDir /\ InitConv
        /\ InitAnyConnect /\ InitLoop

SpecConnect == InitConnecting /\ [][NextConnect]_vars

TypeOK ==
    /\ DOMAIN mounted \subseteq Drives
    /\ mu \in Workers \cup {""}
    /\ next_inst \in 1..(MaxInst + 1)
    /\ \A t \in Workers : client[t] \in InstIds \cup {NoInst}

(***************************************************************************)
(* Claims about the mount lifecycle (checked under Spec).                  *)
(***************************************************************************)
\* adapter instances of drive d: an opened session plus a registered and
\* started host
LiveAdapters(d) ==
    {i \in InstIds : session[i] = "open" /\ host[i] = "started" /\ mount_point[i] = d}

\* instances owned by an entry of the map / by a mount() call in progress
Recorded == {mounted[d].host : d \in DOMAIN mounted}
Building == {client[t] : t \in Workers} \ {NoInst}

\* C1: under every interleaving of mount and unmount requests there is at
\* most one adapter instance (open session + registered, started host) per
\* drive letter, and of the mount(d) calls made while d has not been
\* unmounted at most one returns Ok.
C1_OneAdapterPerDrive ==
    \A d \in Drives :
        /\ Cardinality(LiveAdapters(d)) <= 1
        /\ ok_mounts[d] <= 1

\* C2: a mount(d) that checks the map after a mount(d) has returned Ok and
\* before any unmount(d) removed the entry returns the already-mounted
\* error at once: it opens no session, creates no host and leaves the map
\* (entry of d included) as it was.
C2_AlreadyMounted ==
    [][\A t \in Workers :
          (pc[t] = "m_check" /\ pc'[t] # "m_check"
              /\ ok_mounts[op[t].drive_letter] >= 1)
          => /\ result'[t] = "AlreadyMounted"
             /\ pc'[t] = "idle"
             /\ mounted' = mounted
             /\ session' = session
             /\ host' = host
             /\ next_inst' = next_inst]_vars

C2_Witness ==
    \E t \in Workers :
        /\ pc[t] = "idle"
        /\ op[t].name = "mount"
        /\ result[t] = "AlreadyMounted"
        /\ ok_mounts[op[t].drive_letter] >= 1
        /\ op[t].drive_letter \in DOMAIN mounted

\* C3: unmount(d) for a drive letter without an entry returns the
\* not-mounted error and changes nothing: the map, the sessions and the
\* hosts are the same before and after, and the lock is free again.
C3_NotMounted ==
    [][\A t \in Workers :
          (pc[t] = "u_remove" /\ pc'[t] # "u_remove"
              /\ op[t].drive_letter \notin DOMAIN mounted)
          => /\ result'[t] = "NotMounted"
             /\ pc'[t] = "idle"
             /\ mounted' = mounted
             /\ session' = session
             /\ host' = host
             /\ mount_point' = mount_point
             /\ mu' = ""]_vars

C3_Witness ==
    \E t \in Workers :
        /\ pc[t] = "idle"
        /\ op[t].name = "unmount"
        /\ result[t] = "NotMounted"
        /\ DOMAIN mounted # {}
        /\ op[t].drive_letter \notin DOMAIN mounted

\* C4: no step of mount() before the final insert touches the map, so a
\* mount(d) that fails at session creation or at host creation, registration
\* or start leaves the map as it was, records no entry for its instance, and
\* leaves neither its session open nor its host registered.
BuildPcs == {"m_check", "m_connect", "m_host_new", "m_host_mount", "m_host_start"}

C4_NoPartialEntry ==
    [][\A t \in Workers :
          (pc[t] \in BuildPcs /\ pc'[t] # pc[t])
          => /\ mounted' = mounted
             /\ client[t] \notin Recorded
             /\ (result'[t] \in {"ConnectErr", "HostErr"} /\ client[t] # NoInst)
                 => /\ session'[client[t]] = "closed"
                    /\ host'[client[t]] = "dropped"]_vars

C4_Witness ==
    \E t \in Workers :
        /\ pc[t] = "idle"
        /\ op[t].name = "mount"
        /\ result[t] = "HostErr"
        /\ op[t].drive_letter \notin DOMAIN mounted
        /\ \E i \in InstIds : session[i] = "closed" /\ host[i] = "dropped"

\* C5: an instance that was taken out of the map is torn down as one unit:
\* while its host is still registered or its session still open, the thread
\* dropping it holds the lock of the map (so no other call can look at the
\* map), and when unmount is about to return both are released.
Released(i) == session[i] = "closed" /\ host[i] = "dropped"

C5_TeardownAtomic ==
    /\ \A i \in InstIds \ (Recorded \cup Building) :
          (session[i] = "open" \/ host[i] \notin {"none", "dropped"})
          => \E t \in Workers : dropping[t] = i /\ mu = t
    /\ \A t \in Workers : pc[t] = "u_ret" => Released(dropping[t])

C5_Witness ==
    \E t, o \in Workers :
        /\ pc[t] = "u_drop_client"
        /\ session[dropping[t]] = "open"
        /\ host[dropping[t]] = "dropped"
        /\ pc[o] \in {"l_collect", "m_check", "u_remove"}

\* C6: every entry of the map refers to a session that is open and to a host
\* that was registered under the entry's drive letter and started; a host
\* exists only for an opened session and is started only after it was
\* registered.  Hence every drive get_mounted_drives reports is started.
C6_RecordedAfterStart ==
    /\ \A d \in DOMAIN mounted :
          /\ mounted[d].drive_letter = d
          /\ session[mounted[d].client] = "open"
          /\ host[mounted[d].host] = "started"
          /\ mount_point[mounted[d].host] = d
    /\ \A i \in InstIds :
          /\ host[i] # "none" => session[i] # "none"
          /\ host[i] = "started" => mount_point[i] # ""

C6_Witness ==
    \E t \in Workers :
        /\ pc[t] = "idle"
        /\ op[t].name = "list"
        /\ listed[t] # {}
        /\ \A e \in listed[t] : e[1] \in DOMAIN mounted

\* C7: get_mounted_drives never waits on remote I/O: it is never blocked on
\* the lock of the map while the holder of the lock waits for a dispatcher
\* callback that is inside a remote call.
C7_ListNeverWaitsOnIo ==
    ~ \E t, h \in Workers :
        /\ pc[t] = "l_collect"
        /\ mu = h
        /\ pc[h] \in {"u_drop_wait", "m_drop_wait"}
        /\ inflight = dropping[h]

(***************************************************************************)
(* Claims about the session gate and the metadata cache (under SpecFs).    *)
(***************************************************************************)
\* callback threads whose remote call (stat, list, readRange, write) is in
\* flight
InCall == {c \in Callers : cpc[c] \in {"s_call", "d_call", "r_call", "w_call"}}

\* C8: at most one callback of the mount is inside a Remote Session
\* operation at any time, and a thread that is inside one holds the gate.
C8_GateExclusive ==
    /\ Cardinality(InCall) <= 1
    /\ \A c \in InCall : gate = c

C8_Witness ==
    \E c, o \in Callers :
        /\ cpc[c] = "r_call"
        /\ gate = c
        /\ cpc[o] \in {"s_lock", "d_lock", "r_lock", "w_lock"}

\* C9: whenever an entry of the attribute cache is written, the value
\* written for p is the result of the remote observation of p that completed
\* last before the write: the cache never receives a result older than one
\* that a remote call completed later has already returned.
C9_CacheHoldsLatestStat ==
    [][\A p \in Paths :
          (p \in DOMAIN stats' /\ (p \notin DOMAIN stats \/ stats'[p] # stats[p]))
          => stats'[p].stat = last_stat[p]]_vars

\* C10: a lookup of attributes or of a listing returns the cached value
\* exactly when the entry exists and now - cached_at < 5 seconds; otherwise
\* it is a miss, the remote call is issued under the gate, and the entry is
\* overwritten with the result of that call and a capture time taken after
\* the call.
C10_TtlLookup ==
    [][\A c \in Callers :
          LET p == call[c].path
              moved == cpc'[c] # cpc[c]
          IN /\ (cpc[c] = "s_lookup" /\ moved)
                  => IF p \in DOMAIN stats /\ now - stats[p].cached_at < 5
                     THEN /\ ret'[c] = "hit"
                          /\ cpc'[c] = "idle"
                          /\ stat_local'[c] = stats[p].stat
                     ELSE cpc'[c] = "s_lock"
             /\ (cpc[c] = "d_lookup" /\ moved)
                  => IF p \in DOMAIN dirs /\ now - dirs[p].cached_at < 5
                     THEN /\ ret'[c] = "hit"
                          /\ cpc'[c] = "idle"
                          /\ entries_local'[c] = dirs[p].entries
                     ELSE cpc'[c] = "d_lock"
             /\ (cpc[c] = "s_lock" /\ moved) => cpc'[c] = "s_call"
             /\ (cpc[c] = "d_lock" /\ moved) => cpc'[c] = "d_call"
             /\ (cpc[c] = "s_call" /\ cpc'[c] = "s_store")
                  => stat_local'[c] = remote[p]
             /\ (cpc[c] = "d_call" /\ cpc'[c] = "d_store_stats")
                  => entries_local'[c] = Listing /\ now_local'[c] = now
             /\ (cpc[c] = "s_store" /\ moved)
                  => stats'[p] = [stat |-> stat_local[c], cached_at |-> now]
             /\ (cpc[c] = "d_store_dir" /\ moved)
                  => dirs'[p] = [entries |-> entries_local[c],
                                 cached_at |-> now_local[c]]]_vars

C10_Witness ==
    \E c, o \in Callers :
        /\ cpc[c] = "idle"
        /\ call[c].name = "stat"
        /\ ret[c] = "hit"
        /\ now - stats[call[c].path].cached_at = 4
        /\ cpc[o] \in {"d_lock", "d_call", "d_store_stats"}
        /\ RootDir \in DOMAIN dirs
        /\ now - dirs[RootDir].cached_at >= 5

(***************************************************************************)
(* Claims about the open-handle registry (under SpecHandles, SpecRemount). *)
(***************************************************************************)
\* C11: within one adapter the handles create_handle hands out start at 1
\* and strictly increase, so any two opens get different handles and a handle
\* that was closed is never handed out again.
C11_HandlesIncrease ==
    /\ issued # << >> => issued[1] = 1
    /\ \A j, k \in DOMAIN issued : j < k => issued[j] < issued[k]
    /\ \A c, o \in Callers :
          (c # o /\ hop[c].stage = "insert" /\ hop[o].stage = "insert")
          => hop[c].handle # hop[o].handle
    /\ \A c \in Callers :
          hop[c].stage = "insert" => hop[c].handle \notin closed \cup DOMAIN open_files

C11_Witness ==
    \E c \in Callers :
        /\ 1 \in closed
        /\ hop[c].stage = "insert"
        /\ hop[c].handle = 2

\* C12: no handle value is issued twice in the process: a handle issued by
\* the adapter of the current mount was not issued by an adapter constructed
\* earlier.
C12_ProcessUniqueHandles == Range(issued) \cap issued_before = {}

\* close(h) has been called (it returned, or a thread is inside it)
CloseCalled(h) ==
    \/ h \in closed
    \/ \E c \in Callers : hop[c].name = "close" /\ hop[c].handle = h

\* C13: from the return of open until close(h) is called, h stays in the
\* registry with the context recorded at open; every lookup of h in that
\* period resolves to exactly that path and kind; and only close(h) takes a
\* context out of the registry.
C13_ContextStable ==
    [][/\ \A h \in DOMAIN returned' :
              ~CloseCalled(h)' =>
                  /\ h \in DOMAIN open_files'
                  /\ open_files'[h] = returned'[h]
       /\ \A c \in Callers :
              (/\ hop[c].stage = "lookup"
               /\ hop'[c] # hop[c]
               /\ hop[c].handle \in DOMAIN returned
               /\ ~CloseCalled(hop[c].handle))
              => LET context == returned[hop[c].handle]
                 IN IF hop[c].name = "read_directory" /\ ~context.is_directory
                    THEN hret'[c] = "not_a_directory"
                    ELSE /\ hop'[c].stage = "io"
                         /\ hop'[c].path = context.path
                         /\ hval'[c] = context
       /\ \A h \in DOMAIN open_files :
              h \notin DOMAIN open_files'
              => \E c \in Callers :
                    /\ hop[c].name = "close"
                    /\ hop[c].handle = h
                    /\ hop'[c].stage = "idle"]_vars

C13_Witness ==
    \E c \in Callers :
        /\ hop[c].stage = "io"
        /\ hop[c].handle = 1
        /\ hval[c] = returned[1]
        /\ returned[1].path = RootDir
        /\ 2 \in closed
        /\ returned[2].path = ChildFile

\* C14: read, write, get_file_info and read_directory on a handle that was
\* never issued or was closed return the invalid-handle error at the lookup:
\* the thread does not go for the session, and the registry, the handle
\* counter and both caches are as before.
C14_InvalidHandle ==
    [][\A c \in Callers :
          (/\ hop[c].stage = "lookup"
           /\ hop'[c] # hop[c]
           /\ (hop[c].handle \notin Range(issued) \/ hop[c].handle \in closed))
          => /\ hret'[c] = "invalid_handle"
             /\ hop'[c].stage = "idle"
             /\ UNCHANGED <<open_files, next_handle, gate, stats, dirs>>]_vars

C14_Witness ==
    \E c, o \in Callers :
        /\ hret[c] = "invalid_handle"
        /\ hop[c].stage = "idle"
        /\ hop[o].stage = "lookup"
        /\ hop[o].handle \in closed
        /\ stats # << >>

\* C15: close never fails and makes no remote call: it returns at once, h
\* is out of the registry, every other context is as before, and closing a
\* handle the registry does not hold changes nothing.
C15_CloseRemoves ==
    [][\A c \in Callers :
          (hop[c].stage = "close" /\ hop'[c] # hop[c])
          => /\ hret'[c] = "closed"
             /\ hop'[c].stage = "idle"
             /\ open_files' = Del(open_files, hop[c].handle)
             /\ hop[c].handle \notin DOMAIN open_files => open_files' = open_files
             /\ UNCHANGED <<next_handle, gate, stats, dirs>>]_vars

C15_Witness ==
    \E c, o \in Callers :
        /\ hret[c] = "closed"
        /\ 1 \in closed
        /\ 1 \notin DOMAIN open_files
        /\ 2 \in DOMAIN open_files
        /\ open_files[2] = returned[2]
        /\ hret[o] = "closed"
        /\ o # c

(***************************************************************************)
(* Claims about file bytes (checked under SpecData and SpecRoundTrip).     *)
(***************************************************************************)
\* the byte positions [offset, offset + length) a read call asks for
Asked(c) == {io[c].offset + k : k \in 1..io[c].length}

\* thread c holds the bytes its read_file_range returned
HasData(c) == io[c].op = "read" /\ (dpc[c] = "r_copy" \/ dres[c] = "ok")

\* what the file holds at the n positions from offset on; a position past the
\* end of the file holds no byte
Slice(file, offset, n) ==
    [k \in 1..n |-> IF offset + k <= Len(file) THEN file[offset + k] ELSE "eof"]

\* C16: of two read calls for non-overlapping byte ranges that share one
\* session, each gets the bytes of the file at its own offset and no byte from
\* a position the other one asked for, and the gate is only ever held by a
\* thread that is at its remote call, so neither call keeps the other waiting
C16_ConcurrentReads ==
    \A c \in Callers : \A o \in Callers \ {c} :
        (io[c].op = "read" /\ io[o].op = "read" /\ Asked(c) \cap Asked(o) = {})
        => /\ HasData(c) =>
                /\ Len(data[c]) <= io[c].length
                /\ data[c] = Slice(content, io[c].offset, Len(data[c]))
                /\ {io[c].offset + k : k \in 1..Len(data[c])} \cap Asked(o) = {}
           /\ gate = c => dpc[c] = "r_call"

\* both calls are past their remote read at once, for ranges that hold
\* different bytes
C16_Witness ==
    /\ \A c \in Callers : dpc[c] = "r_copy" /\ io[c].op = "read" /\ Len(data[c]) = 1
    /\ io["k1"].offset = 0
    /\ io["k2"].offset = 1
    /\ io["k1"].length = 1
    /\ content = <<"x", "y">>
    /\ data["k1"] = <<"x">>
    /\ data["k2"] = <<"y">>

\* what a read that has its data satisfies whatever the request: at most
\* `length` bytes, the file's bytes from `offset` on, none at or past the end of
\* the file, and Read reports the number of bytes it copied into the caller's
\* buffer, the rest of which it leaves alone
ReadContract(c) ==
    LET n == Len(data[c])
    IN /\ n <= io[c].length
       /\ data[c] = Slice(content, io[c].offset, n)
       /\ io[c].offset >= Len(content) => n = 0
       /\ dres[c] = "ok" =>
            /\ bytes_read[c] = n
            /\ buffer[c] = Fill(Zeroed(io[c].length), data[c], n)

\* C19: readRange, and Read built on it, returns n <= length bytes that are
\* the file's bytes at [offset, offset + n); n < length when a request for at
\* least one byte reaches past the end of the file, n = 0 at or past the end
\* of the file, and the count Read reports is the number of bytes copied
C19_ShortRead ==
    \A c \in Callers :
        HasData(c) =>
            /\ ReadContract(c)
            /\ (io[c].length > 0 /\ io[c].offset + io[c].length > Len(content))
               => Len(data[c]) < io[c].length

\* C19 as stated: n < length whenever offset + length exceeds the file size,
\* a request for no bytes included
C19_AsStated ==
    \A c \in Callers :
        HasData(c) =>
            /\ ReadContract(c)
            /\ io[c].offset + io[c].length > Len(content)
               => Len(data[c]) < io[c].length

\* a read of two bytes from a file of one has returned one byte and no error
C19_Witness ==
    /\ content = <<"x">>
    /\ io["k1"] = [op |-> "read", offset |-> 0, length |-> 2, bytes |-> << >>]
    /\ dres["k1"] = "ok"
    /\ bytes_read["k1"] = 1
    /\ buffer["k1"] = <<"x", Blank>>

\* C20: after a write that succeeded the file holds exactly the bytes
\* written, whatever it held before, and a read of the whole file that begins
\* after that write, with no other write in between, collects those bytes in
\* order and returns exactly them
C20_RoundTrip ==
    /\ last_writer # "" => content = written
    /\ \A c \in following :
        /\ io[c].op = "read_whole"
        /\ data[c] = Slice(written, 0, Len(data[c]))
        /\ dres[c] = "ok" => data[c] = written

\* a thread wrote two bytes and then read the whole file back
C20_Witness ==
    /\ last_writer = "k1"
    /\ io["k1"].op = "read_whole"
    /\ "k1" \in following
    /\ dres["k1"] = "ok"
    /\ written = <<"y", "x">>
    /\ data["k1"] = <<"y", "x">>

(***************************************************************************)
(* Claims about directory enumeration (checked under SpecDir).             *)
(***************************************************************************)
\* the remote children of a listing: its entries other than "." and ".."
Children(listing) == SelectSeq(listing, LAMBDA name : name \notin {".", ".."})

\* the entries whose name a DirInfo can hold
Encodable(q) == SelectSeq(q, LAMBDA name : Units(name) <= MaxName)

\* the full sequence of a listing: ".", "..", children
FullSequence(listing) == <<".", "..">> \o Children(listing)

RECURSIVE TotalSize(_)
TotalSize(q) == IF q = << >> THEN 0 ELSE Size(Head(q)) + TotalSize(Tail(q))

\* the buffer of the last call has room for every entry that can be encoded
LargeEnough == dir_room >= TotalSize(Encodable(FullSequence(dir_listing)))

NoNameTwice(q) == \A i, j \in 1..Len(q) : q[i] = q[j] => i = j

\* C17: enumeration without a marker into a buffer large enough emits ".",
\* then "..", then every remote child whose name can be encoded, in the order
\* of the remote listing, and no name twice even if the listing holds "." or
\* ".."
C17_FreshEnumeration ==
    (enumerated /\ dir_marker = NoMarker /\ LargeEnough)
    => /\ dir_out = <<".", "..">> \o Encodable(Children(dir_listing))
       /\ NoNameTwice(dir_out)

\* C17 as stated: every remote child is emitted
C17_AsStated ==
    (enumerated /\ dir_marker = NoMarker /\ LargeEnough)
    => /\ dir_out = <<".", "..">> \o Children(dir_listing)
       /\ NoNameTwice(dir_out)

\* a listing that holds "." between two children has been enumerated
C17_Witness ==
    /\ enumerated
    /\ dir_marker = NoMarker
    /\ dir_listing = <<"bb", ".", "a">>
    /\ LargeEnough
    /\ dir_out = <<".", "..", "bb", "a">>

\* the places of the full sequence that hold the marker of the last call
MarkerAt == {n \in 1..Len(FullSequence(dir_listing)) :
                FullSequence(dir_listing)[n] = dir_marker}

\* the (n+1)-th entry of the full sequence onward
After(n) == SubSeq(FullSequence(dir_listing), n + 1, Len(FullSequence(dir_listing)))

\* q is the beginning of r
IsPrefix(q, r) == Len(q) <= Len(r) /\ q = SubSeq(r, 1, Len(q))

\* C18: with the listing unchanged, enumeration with a marker equal to the
\* name of the N-th entry of the full sequence emits, in the same order, the
\* entries from the (N+1)-th onward whose names can be encoded, all of them if
\* the buffer is large enough and otherwise the first of them; the marker
\* entry and the entries before it are not emitted
C18_Resume ==
    \A n \in MarkerAt :
        enumerated =>
            /\ IsPrefix(dir_out, Encodable(After(n)))
            /\ LargeEnough => dir_out = Encodable(After(n))
            /\ \A k \in 1..n : \A i \in 1..Len(dir_out) :
                    dir_out[i] # FullSequence(dir_listing)[k]

\* C18 as stated: exactly the (N+1)-th entry onward is emitted
C18_AsStated ==
    \A n \in MarkerAt :
        enumerated =>
            /\ dir_out = After(n)
            /\ \A k \in 1..n : \A i \in 1..Len(dir_out) :
                    dir_out[i] # FullSequence(dir_listing)[k]

\* an enumeration has resumed after the first child of three
C18_Witness ==
    /\ enumerated
    /\ dir_listing = <<"bb", "a", LongName>>
    /\ dir_marker = "bb"
    /\ LargeEnough
    /\ dir_out = <<"a">>

(***************************************************************************)
(* Further claims about the caches and the gate (checked under SpecFs).    *)
(***************************************************************************)
\* thread c takes a step from position at
Leaves(c, at) == cpc[c] = at /\ cpc'[c] # at

\* a write leaves both caches as they are, and a lookup that finds a valid
\* entry returns it whatever the server holds by now
WriteFrame ==
    \A c \in Callers :
        /\ Leaves(c, "w_call") => stats' = stats /\ dirs' = dirs
        /\ (Leaves(c, "s_lookup") /\ ret'[c] = "hit")
              => stat_local'[c] = stats[call[c].path].stat

\* C21: a Write changes neither cache, a lookup within the TTL of an entry
\* returns the attributes that entry holds, and the entry of a path is
\* rewritten only by the store of a remote stat of that path or by the store
\* of a remote listing of its directory
C21_WriteKeepsCaches ==
    [][/\ WriteFrame
       /\ \A p \in DOMAIN stats :
            stats'[p] # stats[p]
            => \E c \in Callers :
                  \/ Leaves(c, "s_store") /\ call[c].path = p
                  \/ Leaves(c, "d_store_stats")]_vars

\* C21 as stated: the entry of a path is rewritten only by a remote stat
\* made after the entry expired
C21_AsStated ==
    [][/\ WriteFrame
       /\ \A p \in DOMAIN stats :
            stats'[p] # stats[p]
            => /\ \E c \in Callers : Leaves(c, "s_store") /\ call[c].path = p
               /\ now - stats[p].cached_at >= STAT_CACHE_TTL_SECS]_vars

\* a write succeeded and a later lookup within the TTL returned the
\* attributes captured before it
C21_Witness ==
    /\ call["k1"].name = "write" /\ ret["k1"] = "ok"
    /\ call["k2"].name = "stat" /\ ret["k2"] = "hit"
    /\ stat_local["k2"] = 0
    /\ remote[ChildFile] = 1
    /\ last_stat[ChildFile] = 0
    /\ now - stats[ChildFile].cached_at < STAT_CACHE_TTL_SECS

(***************************************************************************)
(* Claims about the conversion of attributes (checked under SpecConv).     *)
(***************************************************************************)
\* (t + 11,644,473,600) * 10,000,000 as a number, not as a u64
WindowsTime(t) == MulSmall(MulSmall(Add(t, UNIX_TO_WINDOWS_EPOCH), 10000), 1000)

\* a is the smallest multiple of 4096 that is >= s
RoundedUp(a, s) == a[1] = 0 /\ ~Less(a, s) /\ Less(a, Add(s, FromInt(4096)))

\* C22: for every attribute record with size s and modification time t the
\* FileInfo has file_size = s, allocation_size = the smallest multiple of 4096
\* that is >= s, and all four times equal to (t + 11,644,473,600) * 10,000,000,
\* with t = 1704067200 when the record carries no modification time
C22_Conversion ==
    file_info # NoInfo =>
        LET s == IF stat_in.size = None THEN FromInt(0) ELSE stat_in.size
            t == IF stat_in.mtime = None THEN DefaultTime ELSE stat_in.mtime
        IN /\ file_info.status = "ok"
           /\ file_info.file_size = s
           /\ RoundedUp(file_info.allocation_size, s)
           /\ file_info.creation_time = WindowsTime(t)
           /\ file_info.last_access_time = WindowsTime(t)
           /\ file_info.last_write_time = WindowsTime(t)
           /\ file_info.change_time = WindowsTime(t)

\* the name under which the OpenSSH layout records a host: the bare name on
\* the default port, "[host]:port" otherwise
OpenSSHName(port) == IF port = 22 THEN PlainName ELSE Bracketed(port)

\* the trust store exists and gives the host a key other than the one the
\* server presents
RecordsDifferentKey ==
    /\ known_hosts.exists
    /\ OpenSSHName(conn_port) \in DOMAIN known_hosts.lines
    /\ known_hosts.lines[OpenSSHName(conn_port)] # server_key

\* the trust store is absent or has no line for the host under either name
NoRecord ==
    \/ ~known_hosts.exists
    \/ DOMAIN known_hosts.lines \cap {PlainName, Bracketed(conn_port)} = {}

\* C23: when the trust store records a different key for the host, no
\* credential is sent, no session is returned and a connect that got past the
\* handshake and could read the store ends with the host-key error; when
\* there is no store or no record for the host, connect never ends with the
\* host-key error
C23_HostKey ==
    /\ RecordsDifferentKey =>
         /\ ~credential_sent
         /\ conn_result # "ok"
         /\ conn_pc \in {"start", "verify", "done"}
         /\ conn_pc = "done" =>
              conn_result \in {"connect_error", "known_hosts_error", "host_key_error"}
    /\ NoRecord => conn_result # "host_key_error"

\* thread c takes a step in which it holds the lock of a cache map: the
\* lookups of lines 70 and 104, the inserts of lines 90, 117 and 134
CacheStep(c) ==
    \E at \in {"s_lookup", "s_store", "d_lookup", "d_store_stats", "d_store_dir"} :
        Leaves(c, at)

\* thread c takes the step in which read or write holds the lock of open_files
RegistryStep(c) == cpc[c] = "idle" /\ cpc'[c] \in {"r_lock", "w_lock"}

\* C24: a thread that takes a step under a cache lock or the registry lock
\* holds the session gate neither before nor after the step, every change of
\* a cache is made in such a step, and a thread with a Remote Session call in
\* flight is at a position where it holds the gate and no other lock.
C24_LocksNotNested ==
    [][/\ \A c \in Callers :
            CacheStep(c) \/ RegistryStep(c) => gate # c /\ gate' # c
       /\ (stats' # stats \/ dirs' # dirs) => \E c \in Callers : CacheStep(c)
       /\ \A c \in Callers :
            gate = c => cpc[c] \in {"s_call", "d_call", "r_call", "w_call"}]_vars

\* a stat result is about to be written to the cache while another thread is
\* inside a remote call
C24_Witness ==
    \E c, o \in Callers :
        /\ cpc[c] \in {"s_store", "d_store_stats"}
        /\ gate = o
        /\ o # c
        /\ cpc[o] \in {"s_call", "d_call", "r_call", "w_call"}

\* C25: the step in which thread c writes the attribute entries of the
\* children of d also stores the listing of d, with the capture timestamp of
\* the children's entries, so that no other thread runs in between; and no
\* store of the attribute cache by another thread happens while c has written
\* the children but not the listing.
C25_ListingAtomic ==
    [][\A c \in Callers :
         /\ Leaves(c, "d_store_stats") =>
              /\ call[c].path \in DOMAIN dirs'
              /\ dirs'[call[c].path] =
                    [entries |-> entries_local[c], cached_at |-> now_local[c]]
         /\ cpc[c] = "d_store_dir" /\ cpc'[c] = "d_store_dir" => stats' = stats]_vars

(***************************************************************************)
(* The listing loop (checked under SpecLoop).                              *)
(***************************************************************************)
\* the buffer of the loop has room for each entry of q taken alone
HoldsEach(q) == \A k \in 1..Len(q) : Size(q[k]) <= dir_room

\* the buffer of the loop has room for one of the entries of q
HoldsOne(q) == \E k \in 1..Len(q) : Size(q[k]) <= dir_room

\* C26: with the listing unchanged, its names distinct and a buffer that can
\* hold each entry that can be encoded, the loop ends after at most one call
\* more than there are entries, and the names its calls emitted are, in order
\* and once each, the entries of the full sequence that can be encoded;
\* before the loop ends they are the first of these.
C26_Loop ==
    (enumerated /\ HoldsEach(Encodable(FullSequence(dir_listing))))
    => /\ loop_calls <= Len(FullSequence(dir_listing)) + 1
       /\ IsPrefix(emitted, Encodable(FullSequence(dir_listing)))
       /\ loop_pc = "done" => emitted = Encodable(FullSequence(dir_listing))

\* C26 as stated: a buffer that holds at least one entry is enough, and
\* every entry of the full sequence is emitted
C26_AsStated ==
    (enumerated /\ HoldsOne(FullSequence(dir_listing)))
    => /\ loop_calls <= Len(FullSequence(dir_listing)) + 1
       /\ IsPrefix(emitted, FullSequence(dir_listing))
       /\ loop_pc = "done" => emitted = FullSequence(dir_listing)

\* a loop of five calls has ended: the second entry did not fit the first
\* call and came with the second
C26_Witness ==
    /\ loop_pc = "done"
    /\ loop_calls = 5
    /\ dir_listing = <<"a", "bb">>
    /\ dir_room = 4
    /\ emitted = <<".", "..", "a", "bb">>

(***************************************************************************)
(* Writes with an offset (checked under SpecWrite).                        *)
(***************************************************************************)
\* C27: a write that succeeds reports the length of its buffer and leaves
\* the file holding exactly the buffer, whatever offset and write-to-end flag
\* the caller passed; hence after two writes that succeeded one after the
\* other the file holds the buffer of the second.
C27_WriteReplaces ==
    [][\A c \in Callers :
         (dpc[c] = "w_call" /\ dres'[c] = "ok")
         => /\ bytes_read'[c] = Len(io[c].bytes)
            /\ content' = io[c].bytes
            /\ written' = io[c].bytes]_vars

\* k1 wrote two bytes, then k2 wrote one byte at offset MaxLen with the flag
\* set, and the file holds that one byte
C27_Witness ==
    /\ dres["k1"] = "ok" /\ io["k1"].op = "write" /\ Len(io["k1"].bytes) = 2
    /\ dres["k2"] = "ok" /\ io["k2"].op = "write" /\ io["k2"].bytes = <<"y">>
    /\ io["k2"].offset = MaxLen
    /\ io["k2"].write_to_end_of_file
    /\ last_writer = "k2"
    /\ bytes_read["k2"] = 1
    /\ content = <<"y">>

(***************************************************************************)
(* Further claims about the callbacks (checked under SpecNames).           *)
(***************************************************************************)
\* thread c is in read_directory with its handle resolved to a directory
Enumerating(c) == hop[c].name = "read_directory" /\ hop[c].stage # "lookup"

\* C28: once read_directory has resolved its handle to a directory, the stat
\* of the directory never ends it: with the stat or, when the remote stat
\* failed, with the default record (size 0, directory, modification time
\* 1704067200) it goes on to the listing; it returns the error only from a
\* remote listing call that failed, and succeeds with the listing of the
\* cache or of the server, "." and ".." carrying the record it went on with.
C28_EnumerationSurvivesStat ==
    [][\A c \in Callers :
         Enumerating(c) /\ hop'[c] # hop[c] =>
            /\ hop[c].stage = "io" =>
                  \/ hop'[c].stage = "io_call"
                  \/ /\ hop'[c].stage = "list"
                     /\ hop'[c].dir_stat = FileStat(hop[c].path, stats[hop[c].path].stat)
            /\ hop[c].stage = "io_call" =>
                  /\ hop'[c].stage = "list"
                  /\ hop'[c].dir_stat \in {FileStat(hop[c].path, remote[hop[c].path]),
                                          default_dir_stat}
                  /\ hop'[c].dir_stat = default_dir_stat =>
                        LET info == stat_to_file_info(hop'[c].dir_stat, "debug")
                        IN /\ info.file_size = FromInt(0)
                           /\ info.file_attributes = 16
                           /\ info.last_write_time = WindowsTime(FromInt(1704067200))
            /\ hop[c].stage = "list" =>
                  \/ hop'[c].stage = "list_call"
                  \/ hret'[c] = "ok" /\ hval'[c] = hop[c].dir_stat
            /\ hop[c].stage = "list_call" =>
                  \/ /\ hret'[c] = "ok"
                     /\ hval'[c] = hop[c].dir_stat
                     /\ dirs'[hop[c].path].entries = ListingOf(hop[c].path)
                  \/ hret'[c] = "remote_error" /\ dirs' = dirs]_vars

\* an enumeration whose stat of the directory failed has returned the listing
C28_Witness ==
    \E c \in Callers :
        /\ hop[c].stage = "idle"
        /\ hret[c] = "ok"
        /\ hval[c] = default_dir_stat
        /\ RootDir \in DOMAIN dirs
        /\ now - stats[RootDir].cached_at >= STAT_CACHE_TTL_SECS

\* C29: read_directory on a handle whose context, as open returned it, says
\* file returns the not-a-directory error in the step that resolves the
\* handle: the thread never goes for the session, and the gate and both
\* caches are as before; what the server says the path is now plays no part.
C29_FileHandleRefused ==
    [][\A c \in Callers :
         (/\ hop[c].name = "read_directory"
          /\ hop[c].stage = "lookup"
          /\ hop'[c] # hop[c]
          /\ hop[c].handle \in DOMAIN returned
          /\ ~returned[hop[c].handle].is_directory)
         => /\ hret'[c] = "not_a_directory"
            /\ hop'[c].stage = "idle"
            /\ gate' = gate
            /\ stats' = stats
            /\ dirs' = dirs]_vars

\* handle 2 was opened when the child was a regular file, the child is a
\* directory on the server now, and read_directory on the handle was refused
C29_Witness ==
    \E c \in Callers :
        /\ hret[c] = "not_a_directory"
        /\ 2 \in DOMAIN open_files
        /\ open_files[2] = [path |-> ChildFile, is_directory |-> FALSE]
        /\ remote[ChildFile] = ReplacedByDir
        /\ ChildFile \in DOMAIN stats
        /\ stats[ChildFile].stat = ReplacedByDir

\* C30: get_security_by_name answers from the attribute cache when the cache
\* holds a live entry and goes for the session only when it does not; it
\* returns the directory tag when the stat says directory, the file tag
\* otherwise, and NotFound when the remote stat fails; in none of its steps
\* is a handle allocated or the registry changed.
C30_NameResolution ==
    [][\A c \in Callers :
         (hop[c].name = "get_security_by_name" /\ hop'[c] # hop[c])
         => LET path == hop[c].path
                Tag(stat) == IF is_dir(path, stat) THEN "directory" ELSE "file"
            IN /\ open_files' = open_files
               /\ next_handle' = next_handle
               /\ issued' = issued
               /\ hop[c].stage = "stat" =>
                    IF cached_stat(path) # NoStat
                    THEN /\ hret'[c] = Tag(cached_stat(path))
                         /\ gate' = gate
                         /\ stats' = stats
                    ELSE /\ hop'[c].stage = "stat_call"
                         /\ gate' = c
               /\ hop[c].stage = "stat_call" =>
                    \/ hret'[c] = Tag(remote[path])
                    \/ hret'[c] = "not_found" /\ stats' = stats]_vars

\* the two threads resolved the root and the child: one got the directory
\* tag, the other the file tag after a remote stat, and no handle was taken
C30_Witness ==
    /\ hret["k1"] = "directory"
    /\ hret["k2"] = "file"
    /\ ChildFile \in DOMAIN stats
    /\ next_handle = 2
    /\ DOMAIN open_files = {1}

(***************************************************************************)
(* A marker that is not in the listing (checked under SpecDir).            *)
(***************************************************************************)
\* the marker of the last call is the name of no entry of the full sequence
MarkerUnknown == dir_marker # NoMarker /\ MarkerAt = {}

\* C33: a call whose marker equals no name of the full sequence returns with
\* no entry in the buffer, whatever the room: it does not start from the
\* beginning, and the call has no error to return.
C33_UnknownMarker == (enumerated /\ MarkerUnknown) => dir_out = << >>

\* the entry "bb" is gone from the listing and a call resumed after it into
\* a buffer with room for everything
C33_Witness ==
    /\ enumerated
    /\ dir_listing = <<"a">>
    /\ dir_marker = "bb"
    /\ dir_room = MaxRoom
    /\ dir_out = << >>

(***************************************************************************)
(* Remote failures (checked under SpecIo).                                 *)
(***************************************************************************)
\* C31: the step in which the remote call of read, write or get_file_info
\* ends is the return of the callback: the call is not made again. When the
\* call failed the callback returns the error, and the registry, the handle
\* counter and both caches are as before, so that a handle that was open is
\* open for the callbacks that follow.
C31_NoRetry ==
    [][\A c \in Callers :
         (/\ hop[c].name \in {"read", "write", "get_file_info"}
          /\ hop[c].stage = "io_call"
          /\ hop'[c] # hop[c])
         => /\ hop'[c].stage = "idle"
            /\ hret'[c] \in {"ok", "remote_error"}
            /\ hret'[c] = "remote_error" =>
                  /\ open_files' = open_files
                  /\ next_handle' = next_handle
                  /\ stats' = stats
                  /\ dirs' = dirs]_vars

\* a callback on handle 1 returned the remote error, the caches are as they
\* were at the start, and the other thread has resolved handle 1 and is
\* inside its remote call
C31_Witness ==
    \E c, o \in Callers :
        /\ hop[c].stage = "idle"
        /\ hret[c] = "remote_error"
        /\ DOMAIN open_files = {1}
        /\ DOMAIN stats = {RootDir}
        /\ stats[RootDir].cached_at = 0
        /\ now = STAT_CACHE_TTL_SECS
        /\ hop[o].name = "get_file_info"
        /\ hop[o].handle = 1
        /\ hop[o].stage = "io_call"

(***************************************************************************)
(* The session gate under fair scheduling (checked under SpecFair).        *)
(***************************************************************************)
AtGate == {"s_lock", "d_lock", "r_lock", "w_lock"}

\* the session is held by a thread inside its remote call and by no other
HeldInCallOnly ==
    /\ gate \in Callers \cup {""}
    /\ \A c \in Callers : gate = c <=> c \in InCall

\* C32: the session gate is held only by a thread inside its remote call, so
\* it is free again when the call has returned, with a result or an error.
\* When every remote call returns and the mutex is fair, every thread that
\* waits for the gate gets it and every callback returns.
C32_GateProgress ==
    /\ []HeldInCallOnly
    /\ \A c \in Callers :
        /\ (cpc[c] \in AtGate) ~> (gate = c)
        /\ (cpc[c] # "idle") ~> (cpc[c] = "idle")

\* a read waits for the session while a write of the other thread holds it,
\* after a stat went to the server and was stored
C32_Witness ==
    \E c, o \in Callers :
        /\ cpc[c] = "r_lock"
        /\ cpc[o] = "w_call"
        /\ gate = o
        /\ ChildFile \in DOMAIN stats

=============================================================================
